---- MODULE Spec2Model ----
(***************************************************************************)
(* Sentient-Computational-Manifold: the graph composer (load, build_dag,   *)
(* generate_execution_plan, execute_graph_simulation), the agent           *)
(* orchestrator's run loop, the single-node execution engine and the       *)
(* adaptation manager, as state machines.                                  *)
(*                                                                         *)
(*   Spec        composer pipeline and the two run loops                   *)
(*   SpecGraph   composer pipeline on every store within the bounds        *)
(*   SpecEngine  one SCMExecutionEngine instance                           *)
(*   SpecAdapt   AdaptationManager on a node directory                     *)
(*   SpecEval    evaluate_graph_structure on a planned graph               *)
(*   SpecLoad    load_nodes on a folder of node files                      *)
(*   SpecPostCheck  agent_post_execution_check on a node's policies        *)
(*   SpecTracer  log_event calls on one initialized tracer                 *)
(*   SpecRerun   a run on a controller an earlier run left its state on    *)
(***************************************************************************)
EXTENDS Integers, Sequences, FiniteSets, TLC

\* ------------------------------------------------------------------ bounds
\* number of node files a store holds at most
MaxNodes == 3
\* number of depends_on entries in the whole store at most
MaxDeps == 3
\* number of node files in a store that is run at most
MaxRunNodes == 2

\* node identifiers in the order the directory scan yields them
AllIds == <<"A", "B", "C", "D", "E">>
\* an identifier no file of the store carries
MissingId == "X"
\* a depends_on entry without node_ref
NoRef == ""

Range(s) == {s[j] : j \in 1..Len(s)}

\* position of x in the sequence s (0 when absent)
IndexOf(s, x) == IF \E j \in 1..Len(s) : s[j] = x
                 THEN CHOOSE j \in 1..Len(s) : s[j] = x /\ \A k \in 1..(j-1) : s[k] # x
                 ELSE 0

\* ---------------------------------------------------------- node stores
\* how many depends_on entries each of k nodes has: at most MaxDeps together
RECURSIVE SumUpTo(_, _)
SumUpTo(lens, j) == IF j = 0 THEN 0 ELSE lens[j] + SumUpTo(lens, j - 1)
LenProfiles(k) == {lens \in [1..k -> 0..MaxDeps] : SumUpTo(lens, k) <= MaxDeps}

\* the store of the nodes ns whose depends_on lists, one after the other, are
\* the entries of flat, lens[j] of them for the j-th node
Store(ns, lens, flat) ==
    [nodes |-> ns,
     deps |-> [n \in Range(ns) |->
                 LET j == IndexOf(ns, n)
                 IN SubSeq(flat, SumUpTo(lens, j - 1) + 1, SumUpTo(lens, j))]]

\* the store of k nodes n1..nk of one shape
ShapedStore(k, shape) ==
    LET ns == SubSeq(AllIds, 1, k)
        deps(j) ==
            CASE shape = "chain"         -> IF j > 1 THEN <<ns[j-1]>> ELSE <<>>
              [] shape = "reverse_chain" -> IF j < k THEN <<ns[j+1]>> ELSE <<>>
              [] shape = "fan_in"        -> IF j = k /\ k > 1 THEN SubSeq(ns, 1, k-1) ELSE <<>>
              [] shape = "fan_out"       -> IF j > 1 THEN <<ns[1]>> ELSE <<>>
              [] shape = "twice"         -> IF j = 2 THEN <<ns[1], ns[1]>> ELSE <<>>
              [] shape = "cycle"         -> IF j = 1 /\ k > 1 THEN <<ns[2]>>
                                            ELSE IF j = 2 THEN <<ns[1]>> ELSE <<>>
              [] shape = "missing"       -> IF j = 1 THEN <<MissingId>> ELSE <<>>
              [] shape = "self_loop"     -> IF j = k THEN <<ns[k]>> ELSE <<>>
              [] OTHER                   -> <<>>
    IN [nodes |-> ns, deps |-> [n \in Range(ns) |-> deps(IndexOf(ns, n))]]

\* the stores the runs are explored on
RunStores(n) ==
    {ShapedStore(k, sh) : k \in 0..n,
                          sh \in {"independent", "chain", "reverse_chain", "fan_in",
                                  "fan_out", "twice", "cycle", "missing", "self_loop"}}

\* ----------------------------------------------------------- build_dag
\* the (node, dependency) pairs in the order build_dag's two loops visit them
RECURSIVE DepPairs(_, _)
DepPairs(ns, deps) ==
    IF ns = <<>> THEN <<>>
    ELSE [j \in 1..Len(deps[Head(ns)]) |-> <<Head(ns), deps[Head(ns)][j]>>]
         \o DepPairs(Tail(ns), deps)

\* a dependency the loop rejects: no node_ref, or a node_ref that is not loaded
IsMissingRef(ref, all) == ref = NoRef \/ ref \notin all

\* what is left to visit after a rejected dependency: the loop continues
StopAtMissing(rest) == <<>>
AfterMissing(rest) == rest

\* adj[dep_id].append(node_id); in_degree[node_id] += 1
AddEdgeReversed(acc, node, ref) ==
    [acc EXCEPT !.adj[node] = Append(@, ref), !.in_degree[ref] = @ + 1]
AddEdge(acc, node, ref) ==
    [acc EXCEPT !.adj[ref] = Append(@, node), !.in_degree[node] = @ + 1]

RECURSIVE BuildLoop(_, _, _)
BuildLoop(pairs, all, acc) ==
    IF pairs = <<>> THEN acc
    ELSE LET node == Head(pairs)[1]
             ref  == Head(pairs)[2]
         IN IF IsMissingRef(ref, all)
            THEN BuildLoop(AfterMissing(Tail(pairs)), all,
                           [acc EXCEPT !.valid_dag = FALSE,
                                       !.errors = Append(@, <<node, ref>>)])
            ELSE BuildLoop(Tail(pairs), all, AddEdge(acc, node, ref))

BuildDag(ns, deps) ==
    LET all == Range(ns)
    IN BuildLoop(DepPairs(ns, deps), all,
                 [adj |-> [n \in all |-> <<>>],
                  in_degree |-> [n \in all |-> 0],
                  valid_dag |-> TRUE,
                  errors |-> <<>>])

\* ------------------------------------------------ generate_execution_plan
\* for v in adj[u]: decrement, enqueue when the in-degree reaches zero
\* queue.append(v)
Push(queue, v) == <<v>> \o queue
Enqueue(queue, v) == Append(queue, v)

RECURSIVE Relax(_, _, _)
Relax(vs, queue, deg) ==
    IF vs = <<>> THEN [queue |-> queue, deg |-> deg]
    ELSE LET v == Head(vs)
             d == [deg EXCEPT ![v] = @ - 1]
         IN Relax(Tail(vs), IF d[v] = 0 THEN Enqueue(queue, v) ELSE queue, d)

RECURSIVE Kahn(_, _, _, _)
Kahn(queue, plan, deg, a) ==
    IF queue = <<>> THEN [plan |-> plan, deg |-> deg]
    ELSE LET u == Head(queue)
             r == Relax(a[u], Tail(queue), deg)
         IN Kahn(r.queue, Append(plan, u), r.deg, a)

\* the initial queue: the zero in-degree nodes in loaded order
SeedAll(ns, deg) == ns
Seed(ns, deg) == SelectSeq(ns, LAMBDA n : deg[n] = 0)

GenerateExecutionPlan(ns, a, deg) ==
    LET k == Kahn(Seed(ns, deg), <<>>, deg, a)
    IN [plan |-> k.plan,
        ok |-> Len(k.plan) = Len(ns),
        cycle_nodes |-> {n \in DOMAIN k.deg : k.deg[n] > 0}]

\* ------------------------------------------------------- execution engine
\* a metadata key or a value that is not there
NoStr == "absent"
NoNum == 0 - 1

\* output names; NoName is an output definition without output_name
NoName == ""
OutNames == {"y", "confidence", "forecast_confidence"}
\* "confidence" in name.lower()
IsConfName(n) == n \in {"confidence", "forecast_confidence", "prediction_confidence"}

EmptyMap == [n \in {} |-> 0]
\* a result: a mapping, None, or the error marker {"error": msg}
MapResult(m) == [kind |-> "map", map |-> m, error |-> NoStr]
NoneResult == [kind |-> "none", map |-> EmptyMap, error |-> NoStr]
ErrorResult(msg) == [kind |-> "error", map |-> EmptyMap, error |-> msg]

\* SCMExecutionEngine.__init__: execution_metadata = {}
EmptyMetadata == [execution_mode |-> NoStr, confidence_source |-> NoStr,
                  simulated_confidence |-> NoNum, execution_duration_ms |-> NoNum]

Event(type, node, status) == [event_type |-> type, node_id |-> node, status |-> status]

\* utils._simulate_execution: one mock value per named output, and a
\* "confidence" key when no output name contains "confidence"
SimulateExecution(outputs, rnd) ==
    LET named == outputs \ {NoName}
        has_confidence == \E n \in named : IsConfName(n)
    IN IF has_confidence
       THEN [n \in named |-> rnd.val[n]]
       ELSE [n \in named \cup {"confidence"} |->
                IF n \in named THEN rnd.val[n] ELSE rnd.conf]

\* engine._execute_real_model: the mapping of a conforming implementation, else None
ExecuteRealModel(node, impl, meta) ==
    CASE impl.kind \in {"missing", "no_run_model", "non_mapping"} ->
            [result |-> NoneResult, meta |-> meta, events |-> <<>>]
      [] impl.kind \in {"load_error", "raises"} ->
            [result |-> NoneResult, meta |-> meta,
             events |-> <<Event("NODE_ERROR", node.id, NoStr)>>]
      [] OTHER ->
            LET expected == node.outputs \ {NoName}
                keys == DOMAIN impl.out
            IN IF expected \subseteq keys
               THEN [result |-> MapResult(impl.out),
                     meta |-> [meta EXCEPT
                        !.execution_mode = "real_model_success",
                        !.confidence_source =
                            IF \E k \in keys : k \in {"confidence", "forecast_confidence",
                                                      "prediction_confidence"}
                            THEN "model" ELSE "none",
                        !.simulated_confidence =
                            IF "confidence" \in keys THEN impl.out["confidence"]
                            ELSE IF "forecast_confidence" \in keys
                                 THEN impl.out["forecast_confidence"]
                            ELSE IF "prediction_confidence" \in keys
                                 THEN impl.out["prediction_confidence"]
                            ELSE @],
                     events |-> <<>>]
               ELSE [result |-> NoneResult, meta |-> meta,
                     events |-> <<Event("NODE_ERROR", node.id, NoStr)>>]

\* the Model_Ref branch of execute: the real implementation, else the fallback
NoFallback(node, impl, rnd, meta) ==
    LET real == ExecuteRealModel(node, impl, [meta EXCEPT !.execution_mode = "real_model_attempt"])
    IN real
DispatchModelRef(node, impl, rnd, meta) ==
    LET real == ExecuteRealModel(node, impl, [meta EXCEPT !.execution_mode = "real_model_attempt"])
    IN IF real.result.kind = "none"
       THEN LET sim == SimulateExecution(node.outputs, rnd)
            IN [result |-> MapResult(sim),
                meta |-> [real.meta EXCEPT
                    !.execution_mode = "simulation_fallback",
                    !.confidence_source =
                        IF "confidence" \in DOMAIN sim THEN "simulation" ELSE "none",
                    !.simulated_confidence =
                        IF "confidence" \in DOMAIN sim THEN sim["confidence"] ELSE @],
                events |-> real.events \o <<Event("NODE_INPUTS", node.id, NoStr)>>]
       ELSE real

\* engine.execute on a loaded engine.  node: the node record the engine loaded;
\* ext: the external inputs (a mapping) or None; impl: what the referenced
\* implementation does; rnd: the draws of the simulation generators and the
\* wall-clock span.  Yields the return value, the engine's result and metadata
\* afterwards and the events logged.
EngineExecute(node, ext, impl, rnd, meta0) ==
    LET start == <<Event("NODE_EXEC_START", node.id, NoStr)>>
        inputs == IF ext.kind = "map"
                  THEN [n \in (DOMAIN ext.map) \cap node.inputs |-> ext.map[n]]
                  ELSE [n \in node.inputs |-> rnd.input]
        source == IF ext.kind = "map" THEN "composer" ELSE "generated_mock"
        in_ev  == <<Event("NODE_INPUTS", node.id, NoStr)>>
        fail(msg, m, evs, end) ==
            [ok |-> FALSE, result |-> ErrorResult(msg), metadata |-> m,
             inputs |-> inputs, input_source |-> source,
             events |-> evs \o <<Event("NODE_ERROR", node.id, NoStr)>> \o
                        (IF end THEN <<Event("NODE_EXEC_END", node.id, "FAILED")>> ELSE <<>>)]
    IN IF node.exec_type = "none"
       THEN [fail("Missing 'execution_logic' in node data.", meta0, start, FALSE)
                EXCEPT !.inputs = EmptyMap, !.input_source = "none"]
       ELSE IF node.exec_type \notin {"Model_Ref", "Subgraph_Ref", "External_Call"}
       THEN fail("Unsupported execution type", meta0, start \o in_ev, TRUE)
       ELSE LET d == IF node.exec_type = "Model_Ref"
                     THEN DispatchModelRef(node, impl, rnd, meta0)
                     ELSE [result |-> MapResult(SimulateExecution(node.outputs, rnd)),
                           meta |-> [meta0 EXCEPT !.execution_mode = "simulation"],
                           events |-> <<>>]
            IN IF d.result.kind = "none"
               THEN fail("Execution failed", d.meta, start \o in_ev \o d.events, TRUE)
               ELSE IF impl.kind = "mapping" /\ node.exec_type = "Model_Ref"
                       /\ d.meta.execution_mode = "real_model_success"
                       /\ ~impl.serializable /\ rnd.tracer
               \* json.dumps of the NODE_OUTPUTS event raises inside log_event
               THEN fail("not JSON serializable", d.meta, start \o in_ev \o d.events, TRUE)
               ELSE [ok |-> TRUE, result |-> d.result,
                     metadata |-> [d.meta EXCEPT !.execution_duration_ms = rnd.duration],
                     inputs |-> inputs, input_source |-> source,
                     events |-> start \o in_ev \o d.events \o
                                <<Event("NODE_OUTPUTS", node.id, NoStr),
                                  Event("NODE_METRIC", node.id, NoStr),
                                  Event("NODE_EXEC_END", node.id, "SUCCESS")>>]

\* ----------------------------------------------------- adaptation manager
\* adaptation_manager.py: PERFORMANCE_CONFIDENCE_THRESHOLD = 0.75, in hundredths
PERFORMANCE_CONFIDENCE_THRESHOLD == 75
PERFORMANCE_TIME_THRESHOLD_MS == 1000

\* A string is a record so that identifier segments and versions compare:
\*   shape "name"    a piece of an identifier, text in tag
\*   shape "semver"  major.minor.patch, with -tag when tag is not empty
\*   shape "loose"   three digit runs semver rejects (major written with a leading zero)
\*   shape "other"   any other version text (tag), followed by `adapted` times "-adapted"
Str(shape, major, minor, patch, tag, adapted) ==
    [shape |-> shape, major |-> major, minor |-> minor, patch |-> patch,
     tag |-> tag, adapted |-> adapted]
Name(t) == Str("name", 0, 0, 0, t, 0)
SemVer(x, y, z) == Str("semver", x, y, z, "", 0)

\* new_node_data.get("version", "0.0.0")
NoVersion == Str("absent", 0, 0, 0, "", 0)
VersionOf(node) == IF node.version = NoVersion THEN SemVer(0, 0, 0) ELSE node.version

\* AdaptationManager._get_next_version
KeepVersion(v) == v
GetNextVersion(v) ==
    CASE v.shape = "semver" -> [v EXCEPT !.minor = @ + 1, !.patch = 0, !.tag = ""]
      [] v.shape = "loose"  -> [v EXCEPT !.minor = @ + 1, !.patch = 0]
      [] OTHER              -> [v EXCEPT !.adapted = @ + 1]

\* An identifier is the sequence original_node_id.split('_v') yields; the
\* identifier itself is the segments joined by "_v".
NewNodeId(id, next_version) ==
    IF Len(id) = 2 THEN <<id[1], next_version>> ELSE Append(id, next_version)

NoId == <<>>
NoStrategy == [trigger |-> "none", method |-> "none", trigger_condition |-> NoStr]

\* check_adaptation_triggers: the condition that fired, or NoStr.
\* metrics: execution metadata; rnd: the draw of random.random(), in hundredths
LowConfidenceInclusive(confidence) ==
    confidence # NoNum /\ confidence <= PERFORMANCE_CONFIDENCE_THRESHOLD
LowConfidence(confidence) ==
    confidence # NoNum /\ confidence < PERFORMANCE_CONFIDENCE_THRESHOLD

TriggeredCondition(strategy, metrics, rnd) ==
    CASE strategy.trigger = "Performance_Degradation" ->
            IF LowConfidence(metrics.simulated_confidence)
            THEN "Low Confidence"
            ELSE IF metrics.execution_duration_ms # NoNum
                    /\ metrics.execution_duration_ms > PERFORMANCE_TIME_THRESHOLD_MS
            THEN "High Execution Time"
            ELSE NoStr
      [] strategy.trigger = "External_Feedback" ->
            IF rnd < 5 THEN "Simulated External Feedback" ELSE NoStr
      [] strategy.trigger = "Scheduled_Review" ->
            IF rnd < 2 THEN "Simulated Scheduled Review Due" ELSE NoStr
      [] OTHER -> NoStr

\* the node record check_adaptation_triggers leaves behind: the strategy of
\* the record passed in is stamped when a trigger fired
CheckAdaptationTriggers(node, metrics, rnd) ==
    LET cond == IF node.strategy.trigger = "none" THEN NoStr
                ELSE TriggeredCondition(node.strategy, metrics, rnd)
    IN [fired |-> cond # NoStr,
        node |-> IF cond # NoStr
                 THEN [node EXCEPT !.strategy.trigger_condition = cond]
                 ELSE node]

\* perform_adaptation up to the save: the new node record
DerivedFrom(node) == node.id
NewNodeData(node, agent) ==
    LET next_version == GetNextVersion(VersionOf(node))
    IN [node EXCEPT !.version = next_version,
                    !.id = NewNodeId(node.id, next_version),
                    !.rationale = "adapted",
                    !.author = agent,
                    !.derived_from = DerivedFrom(node)]

\* perform_adaptation from the save on: the new node file is written under
\* the new identifier, the log entry appended, the new identifier returned.
\* io: "ok", "write_fails" (open or json.dump raises) or "log_fails" (the
\* append to the adaptation log raises inside _log_adaptation_event)
LogEntry(node, new) ==
    [original_node_id |-> node.id, original_version |-> VersionOf(node),
     new_node_id |-> new.id, new_version |-> new.version,
     adaptation_trigger |-> IF node.strategy.trigger_condition = NoStr
                            THEN "Unknown" ELSE node.strategy.trigger_condition,
     adaptation_method |-> node.strategy.method]

PerformAdaptation(fs, log, node, agent, io) ==
    LET new == NewNodeData(node, agent)
    IN IF io = "write_fails"
       \* the except branch unlinks new_node_path when it exists
       THEN [files |-> [f \in (DOMAIN fs) \ {new.id} |-> fs[f]], log |-> log, ret |-> NoId]
       ELSE [files |-> [f \in (DOMAIN fs) \cup {new.id} |-> IF f = new.id THEN new ELSE fs[f]],
             log |-> IF io = "log_fails" THEN log ELSE Append(log, LogEntry(node, new)),
             ret |-> new.id]

\* evaluate_and_adapt: the file check, the trigger check, the adaptation.
\* readable: whether node_path opens for reading
EvaluateAndAdapt(fs, log, node, metrics, readable, rnd, io) ==
    IF ~readable
    THEN [files |-> fs, log |-> log, ret |-> NoId, node |-> node, triggered |-> FALSE]
    ELSE LET chk == CheckAdaptationTriggers(node, metrics, rnd)
         IN IF chk.fired
            THEN LET r == PerformAdaptation(fs, log, chk.node, "agent_adaptor_v1", io)
                 IN [files |-> r.files, log |-> r.log, ret |-> r.ret, node |-> chk.node,
                     triggered |-> TRUE]
            ELSE [files |-> fs, log |-> log, ret |-> NoId, node |-> chk.node,
                  triggered |-> FALSE]

\* ------------------------------------------------------------------ state
VARIABLES
    composer,        \* SCMGraphComposer: its fields, and how far the pipeline got
    run,             \* the run loop: SCMAgentOrchestrator.halt_execution and the locals
    tracer,          \* the process-wide SCMTracer
    engine,          \* one SCMExecutionEngine
    files,           \* the node directory: file name -> node record
    adaptation_log,  \* the adaptation log file
    adapt_call       \* the last AdaptationManager call: what went in and came out

vars == <<composer, run, tracer, engine, files, adaptation_log, adapt_call>>

\* orchestrator.py: CONFIDENCE_THRESHOLD_LOW = 0.7, in hundredths
CONFIDENCE_THRESHOLD_LOW == 70

\* SCMGraphComposer.__init__
NewComposer ==
    [phase |-> "new", nodes |-> <<>>, depends_on |-> EmptyMap, adj |-> EmptyMap,
     in_degree |-> EmptyMap, build_errors |-> <<>>, execution_plan |-> <<>>,
     cycle_nodes |-> {}, execution_results |-> EmptyMap, execution_metadata |-> EmptyMap,
     node_records |-> EmptyMap, node_paths |-> EmptyMap]

NoNodeData == [id |-> NoStr, state |-> NoStr, exec_type |-> "none", outputs |-> {},
               inputs |-> {}, strategy |-> NoStrategy, fallback |-> FALSE]

IdleRun ==
    [mode |-> "none", pc |-> "idle", step |-> 0, halt_execution |-> FALSE,
     overall_success |-> TRUE, intermediate_outputs |-> EmptyMap,
     adapted_nodes_this_run |-> EmptyMap, node_data |-> NoNodeData,
     final_status |-> NoStr, returned |-> NoStr,
     input_defs |-> EmptyMap, engine_inputs |-> EmptyMap, evaluated |-> {}]

\* tracer.py: _active_tracer = None
\* ended: the end_trace calls so far; summary: the status in the summary file
\* session_data: the three lists log_event keeps in the session summary
NoSession == [nodes_executed |-> <<>>, error_events |-> <<>>, agent_decisions |-> <<>>]
NoTracer == [active |-> FALSE, events |-> <<>>, status |-> NoStr, final_results |-> <<>>,
             ended |-> 0, summary |-> NoStr, session_data |-> NoSession]

IdleEngine == [state |-> "idle"]
IdleAdaptCall == [op |-> "none"]

\* d with key k set to v
Put(d, k, v) == [x \in (DOMAIN d) \cup {k} |-> IF x = k THEN v ELSE d[x]]

\* data.get("status") of an event: GRAPH_END carries its status under the key
\* "final_status"
DataStatus(e) == IF e.event_type = "GRAPH_END" THEN NoStr ELSE e.status

\* log_event: the if/elif chain that updates session_data
UpdateSession(sd, e) ==
    IF e.event_type = "AGENT_DECISION"
    THEN [sd EXCEPT !.agent_decisions = Append(@, e)]
    ELSE IF e.event_type = "NODE_ERROR" \/ DataStatus(e) = "FAILED"
    THEN [sd EXCEPT !.error_events = Append(@, e)]
    ELSE IF e.event_type = "NODE_END" /\ e.node_id # NoStr
    THEN IF e.node_id \in Range(sd.nodes_executed) THEN sd
         ELSE [sd EXCEPT !.nodes_executed = Append(@, e.node_id)]
    ELSE sd

\* SCMTracer.log_event; written: whether _write_event got the line into the
\* trace file (its exception is logged and swallowed)
LogEvent(t, e, written) ==
    [t EXCEPT !.events = IF written THEN Append(@, e) ELSE @,
              !.session_data = UpdateSession(@, e)]

RECURSIVE LogAll(_, _)
LogAll(t, evs) == IF evs = <<>> THEN t ELSE LogAll(LogEvent(t, Head(evs), TRUE), Tail(evs))

\* log_trace_event: tracer.log_event when a tracer is active
LogWithoutTracer(t, evs) == LogAll(t, evs)
Log(t, evs) == IF t.active THEN LogAll(t, evs) ELSE t

\* ------------------------------------------- what a run reads and draws
\* execution_logic.type values the runs meet ("Other": none of the three)
RunExecTypes == {"Model_Ref", "Subgraph_Ref", "Other"}
RunTriggers == {"none", "Performance_Degradation"}

\* the content of node n's file when a run loop reads it: unreadable, not
\* valid against the schema, or a node record
RunNodeData(n) ==
    {[NoNodeData EXCEPT !.id = n, !.state = st] : st \in {"unreadable", "invalid"}}
    \cup
    {[id |-> n, state |-> "ok", exec_type |-> t, outputs |-> {"y"}, inputs |-> {"y"},
      strategy |-> [trigger |-> g, method |-> IF g = "none" THEN "none" ELSE "Select_New_Algorithm",
                    trigger_condition |-> NoStr],
      fallback |-> fb]
     : t \in RunExecTypes, g \in RunTriggers, fb \in BOOLEAN}

\* the referenced implementation in the runs: there is none
RunImpl == [kind |-> "missing", out |-> EmptyMap, serializable |-> TRUE]
\* the draws of the simulation generators and the clock in the runs
RunRnd == {[val |-> [n \in OutNames |-> 1], conf |-> c, input |-> 0,
            duration |-> 200, tracer |-> TRUE] : c \in {60, 90}}
\* random.random() in hundredths: below every probability, above every probability
RandomDraws == {0, 50}

\* the node record of the adaptation manager for node n of a run
RunNodeId(n) == <<Name(n), SemVer(1, 0, 0)>>
AdaptRecord(nd) ==
    [id |-> RunNodeId(nd.id), version |-> SemVer(1, 0, 0), derived_from |-> NoId,
     strategy |-> nd.strategy, rationale |-> "initial", author |-> "user"]

\* ------------------------------------------------------ the run loops
\* for node_id in execution_plan: the entry of iteration i
CurrentNodeFromEnd(plan, i) == plan[Len(plan) + 1 - i]
CurrentNode(plan, i) == plan[i]

\* break: the loop is left, the code after the loop runs next
Continue(r) ==
    [r EXCEPT !.step = @ + 1, !.pc = IF r.mode = "composer" THEN "c_step" ELSE "a_head"]
Break(r) ==
    [r EXCEPT !.pc = IF r.mode = "composer" THEN "c_end" ELSE "a_end"]

\* the agent's final status after the loop
FinalStatusIgnoringHalt(halt_execution, overall_success) ==
    IF overall_success THEN "SUCCESS" ELSE "FAILED"
FinalStatus(halt_execution, overall_success) ==
    IF halt_execution THEN "HALTED"
    ELSE IF overall_success THEN "SUCCESS" ELSE "FAILED"

\* return final_status == "SUCCESS"
ReturnedUnlessFailed(final_status) == IF final_status # "FAILED" THEN "true" ELSE "false"
Returned(final_status) == IF final_status = "SUCCESS" THEN "true" ELSE "false"

\* the callers (compose_and_execute, the CLI handlers, the tools) go on to the
\* run only when load_nodes, build_dag and generate_execution_plan returned true
MayRunUnlessBuildFailed(phase) == phase \in {"planned", "plan_failed"}
MayRun(phase) == phase = "planned"

\* --------------------------------------------------- composer pipeline
\* load_nodes: the valid files of the directory, in scan order
Loaded(st) ==
    [composer EXCEPT !.nodes = st.nodes, !.depends_on = st.deps,
                     !.phase = IF Len(st.nodes) = 0 THEN "load_failed" ELSE "loaded"]

\* load_nodes on any store within the bounds
LoadNodes ==
    /\ composer.phase = "new"
    /\ \E k \in 0..MaxNodes :
         LET ns == SubSeq(AllIds, 1, k)
         IN \E lens \in LenProfiles(k) :
              \E flat \in [1..SumUpTo(lens, k) -> Range(ns) \cup {MissingId, NoRef}] :
                 composer' = Loaded(Store(ns, lens, flat))
    /\ UNCHANGED <<run, tracer, engine, files, adaptation_log, adapt_call>>

\* load_nodes on a store a run is explored on
LoadRunNodes ==
    /\ composer.phase = "new"
    /\ \E st \in RunStores(MaxRunNodes) : composer' = Loaded(st)
    /\ UNCHANGED <<run, tracer, engine, files, adaptation_log, adapt_call>>

\* build_dag, called by every caller only after load_nodes returned true
BuildDagStep ==
    /\ composer.phase = "loaded"
    /\ LET b == BuildDag(composer.nodes, composer.depends_on)
       IN composer' = [composer EXCEPT
              !.adj = b.adj, !.in_degree = b.in_degree, !.build_errors = b.errors,
              !.phase = IF b.valid_dag THEN "built" ELSE "build_failed"]
    /\ UNCHANGED <<run, tracer, engine, files, adaptation_log, adapt_call>>

\* generate_execution_plan, called only after build_dag returned true
PlanStep ==
    /\ composer.phase = "built"
    /\ LET g == GenerateExecutionPlan(composer.nodes, composer.adj, composer.in_degree)
       IN composer' = [composer EXCEPT
              !.execution_plan = g.plan,
              !.cycle_nodes = IF g.ok THEN {} ELSE g.cycle_nodes,
              !.phase = IF g.ok THEN "planned" ELSE "plan_failed"]
    /\ UNCHANGED <<run, tracer, engine, files, adaptation_log, adapt_call>>

\* initialize_tracer
InitializeTracer ==
    /\ run.mode = "none"
    /\ ~tracer.active
    /\ tracer' = [active |-> TRUE, events |-> <<>>, status |-> "RUNNING",
                  final_results |-> <<>>, ended |-> 0, summary |-> NoStr,
                  session_data |-> NoSession]
    /\ UNCHANGED <<composer, run, engine, files, adaptation_log, adapt_call>>

\* tracer.end_trace
EndTrace(t, status, final_results) ==
    [LogEvent(t, Event("GRAPH_END", NoStr, status), TRUE)
        EXCEPT !.status = status, !.final_results = final_results,
               !.ended = @ + 1, !.summary = status]

\* get_final_results: a terminal node has no outgoing edge in the built adj
EveryPlanNode(node_id, nodes, adj) == node_id \in Range(nodes)
IsTerminal(node_id, nodes, adj) == node_id \in Range(nodes) /\ adj[node_id] = <<>>

\* the mapping get_final_results returns, as its entries in insertion order;
\* execution_results.get(node_id) is None for a node without a result
RECURSIVE GetFinalResults(_, _, _, _)
GetFinalResults(plan, nodes, adj, execution_results) ==
    IF plan = <<>> THEN <<>>
    ELSE LET node_id == Head(plan)
             rest == GetFinalResults(Tail(plan), nodes, adj, execution_results)
         IN IF IsTerminal(node_id, nodes, adj)
            THEN <<[node_id |-> node_id,
                    result |-> IF node_id \in DOMAIN execution_results
                               THEN execution_results[node_id] ELSE NoneResult]>> \o rest
            ELSE rest

\* ------------------------------------------- execute_graph_simulation
\* the input loop of one composer step: the inputs handed on, or missing
RECURSIVE PrepareInputs(_, _, _)
PrepareInputs(defs, outs, acc) ==
    IF defs = <<>> THEN [missing |-> FALSE, inputs |-> acc]
    ELSE LET d == Head(defs)
         IN IF d.source \in DOMAIN outs
            THEN IF d.input_name \in DOMAIN outs[d.source]
                 THEN PrepareInputs(Tail(defs), outs, Put(acc, d.input_name, outs[d.source][d.input_name]))
                 ELSE [missing |-> TRUE, inputs |-> acc]
            ELSE IF d.source # "external_parameter"
                 THEN [missing |-> TRUE, inputs |-> acc]
                 ELSE PrepareInputs(Tail(defs), outs, acc)

\* external_inputs_arg = inputs_for_node if inputs_for_node else None
NeverPassInputs(inputs_for_node) == NoneResult
ComposerExternalInputs(inputs_for_node) ==
    IF DOMAIN inputs_for_node = {} THEN NoneResult ELSE MapResult(inputs_for_node)

\* what one engine.execute call of a run was handed and worked on
EngineCall(ext, ex) ==
    [external |-> ext, inputs |-> ex.inputs, input_source |-> ex.input_source]

\* the inputs list of a loaded node: at most one definition
InputNames == {"y", "z", "confidence"}
InputDefs(ns) ==
    {<<>>} \cup {<<[input_name |-> nm, source |-> src]>>
                 : nm \in InputNames, src \in Range(ns) \cup {"external_parameter"}}

\* self.execution_results = {}; self.execution_metadata = {} at the start of
\* a run
KeptResults(c) == c
ClearedResults(c) ==
    [c EXCEPT !.execution_results = EmptyMap, !.execution_metadata = EmptyMap]

ComposerStart ==
    /\ MayRun(composer.phase)
    /\ run.mode = "none"
    /\ IF ~tracer.active \/ composer.execution_plan = <<>>
       THEN /\ run' = [run EXCEPT !.mode = "composer", !.pc = "done", !.returned = "false"]
            /\ UNCHANGED <<composer, tracer>>
       ELSE /\ run' = [run EXCEPT !.mode = "composer", !.pc = "c_step", !.step = 1,
                                  !.overall_success = TRUE, !.intermediate_outputs = EmptyMap]
            /\ composer' = ClearedResults(composer)
            /\ tracer' = Log(tracer, <<Event("GRAPH_START", NoStr, NoStr)>>)
    /\ UNCHANGED <<engine, files, adaptation_log, adapt_call>>

\* one iteration of the loop over execution_plan
ComposerStep ==
    /\ run.mode = "composer"
    /\ run.pc = "c_step"
    /\ run.step <= Len(composer.execution_plan)
    /\ LET node_id == CurrentNode(composer.execution_plan, run.step)
           begin == <<Event("COMPOSER_STEP_START", node_id, NoStr)>>
       IN \E defs \in InputDefs(composer.nodes), nd \in RunNodeData(node_id), rnd \in RunRnd :
            LET prep == PrepareInputs(defs, run.intermediate_outputs, EmptyMap)
                ext == ComposerExternalInputs(prep.inputs)
                seen == [run EXCEPT !.input_defs = Put(@, node_id, defs)]
                ex == EngineExecute([nd EXCEPT !.inputs = {d.input_name : d \in Range(defs)}],
                                    ext, RunImpl, rnd, EmptyMetadata)
            IN IF prep.missing
               THEN /\ tracer' = Log(tracer, begin \o <<Event("NODE_ERROR", node_id, NoStr)>>)
                    /\ run' = Break([seen EXCEPT !.overall_success = FALSE])
                    /\ UNCHANGED composer
               ELSE IF nd.state # "ok"
               THEN /\ tracer' = Log(tracer, begin \o
                            <<Event("NODE_LOAD_FAILED", node_id, NoStr),
                              Event("COMPOSER_STEP_END", node_id, "LOAD_FAILED")>>)
                    /\ composer' = [composer EXCEPT !.execution_results =
                            Put(@, node_id, ErrorResult("Load/Validation failed"))]
                    /\ run' = Break([seen EXCEPT !.overall_success = FALSE])
               ELSE /\ tracer' = Log(tracer, begin \o
                            <<Event("NODE_LOAD_SUCCESS", node_id, NoStr)>> \o ex.events \o
                            <<Event("COMPOSER_STEP_END", node_id,
                                    IF ex.ok THEN "SUCCESS" ELSE "FAILED")>>)
                    /\ composer' = [composer EXCEPT
                            !.execution_results = Put(@, node_id, ex.result),
                            !.execution_metadata = Put(@, node_id, ex.metadata)]
                    /\ run' = LET called == [seen EXCEPT !.engine_inputs =
                                                 Put(@, node_id, EngineCall(ext, ex))]
                              IN IF ex.ok
                                 THEN [called EXCEPT !.intermediate_outputs =
                                                         Put(@, node_id, ex.result.map),
                                                     !.step = @ + 1]
                                 ELSE Break([called EXCEPT !.overall_success = FALSE])
    /\ UNCHANGED <<engine, files, adaptation_log, adapt_call>>

\* after the loop: final status, end_trace, return
ComposerEnd ==
    /\ run.mode = "composer"
    /\ \/ run.pc = "c_end"
       \/ run.pc = "c_step" /\ run.step > Len(composer.execution_plan)
    /\ LET final_status == IF run.overall_success THEN "SUCCESS" ELSE "FAILED"
       IN /\ tracer' = EndTrace(tracer, final_status,
                               GetFinalResults(composer.execution_plan, composer.nodes,
                                               composer.adj, composer.execution_results))
          /\ run' = [run EXCEPT !.pc = "done", !.final_status = final_status,
                                !.returned = IF run.overall_success THEN "true" ELSE "false"]
    /\ UNCHANGED <<composer, engine, files, adaptation_log, adapt_call>>

\* ------------------------------------ execute_graph_with_agent_control
\* agent_pre_execution_check: the halt flag afterwards.  draw: random.random()
\* in hundredths, against ADAPTATION_TRIGGER_PROBABILITY = 0.1
PreCheckHaltsAnyNode(nd, draw) == draw < 10
PreCheckHalts(nd, draw) == nd.strategy.trigger # "none" /\ draw < 10

\* {"halt_decision": self.halt_execution} of the *_CHECK_END events
HaltDecision(halt) == IF halt THEN "halt" ELSE "continue"

\* agent_post_execution_check: whether it sets the halt flag
PostCheckHalts(nd, metadata) ==
    /\ metadata.simulated_confidence # NoNum
    /\ metadata.simulated_confidence < CONFIDENCE_THRESHOLD_LOW
    /\ ~nd.fallback

\* external_inputs=intermediate_outputs.get(actual_node_id)
AgentExternalInputs(intermediate_outputs, actual_node_id) ==
    IF actual_node_id \in DOMAIN intermediate_outputs
    THEN MapResult(intermediate_outputs[actual_node_id]) ELSE NoneResult

\* the identifier the loop works on for plan entry node_id
RerunAdapted(node_id) ==
    IF DOMAIN run.adapted_nodes_this_run # {}
    THEN CHOOSE n \in DOMAIN run.adapted_nodes_this_run : TRUE ELSE node_id
ActualNodeId(node_id) ==
    IF node_id \in DOMAIN run.adapted_nodes_this_run
    THEN run.adapted_nodes_this_run[node_id] ELSE node_id

AgentStart ==
    /\ MayRun(composer.phase)
    /\ run.mode = "none"
    /\ IF ~tracer.active \/ composer.execution_plan = <<>>
       \* the callers evaluate the graph before the run: its two
       \* log_trace_event calls find no tracer
       THEN /\ run' = [run EXCEPT !.mode = "agent", !.pc = "done", !.returned = "false"]
            /\ tracer' = Log(tracer, <<Event("AGENT_EVAL_START", NoStr, NoStr),
                                       Event("AGENT_EVAL_END", NoStr, NoStr)>>)
            /\ UNCHANGED composer
       ELSE /\ run' = [run EXCEPT !.mode = "agent", !.pc = "a_head", !.step = 1,
                                  !.halt_execution = FALSE, !.overall_success = TRUE,
                                  !.intermediate_outputs = EmptyMap,
                                  !.adapted_nodes_this_run = EmptyMap]
            /\ composer' = ClearedResults(composer)
            /\ tracer' = Log(tracer, <<Event("AGENT_EVAL_START", NoStr, NoStr),
                                       Event("AGENT_EVAL_END", NoStr, NoStr),
                                       Event("GRAPH_START", NoStr, NoStr)>>)
    /\ UNCHANGED <<engine, files, adaptation_log, adapt_call>>

\* the top of an iteration: the halt flag, then the node file is read
AgentHead ==
    /\ run.mode = "agent"
    /\ run.pc = "a_head"
    /\ run.step <= Len(composer.execution_plan)
    /\ LET actual == ActualNodeId(CurrentNode(composer.execution_plan, run.step))
       IN IF run.halt_execution
          THEN /\ tracer' = Log(tracer, <<Event("AGENT_DECISION", actual, NoStr),
                                          Event("EXECUTION_HALTED", NoStr, NoStr)>>)
               /\ run' = Break([run EXCEPT !.overall_success = FALSE])
          ELSE \E nd \in RunNodeData(actual) :
                 IF nd.state = "unreadable"
                 THEN /\ tracer' = Log(tracer, <<Event("AGENT_STEP_START", actual, NoStr),
                                                 Event("AGENT_DECISION", actual, NoStr)>>)
                      /\ run' = Break([run EXCEPT !.overall_success = FALSE])
                 ELSE /\ tracer' = Log(tracer, <<Event("AGENT_STEP_START", actual, NoStr)>>)
                      /\ run' = [run EXCEPT !.node_data = nd, !.pc = "a_pre"]
    /\ UNCHANGED <<composer, engine, files, adaptation_log, adapt_call>>

AgentPreCheck ==
    /\ run.mode = "agent"
    /\ run.pc = "a_pre"
    /\ \E draw \in RandomDraws :
         LET nd == run.node_data
             halt == run.halt_execution \/ PreCheckHalts(nd, draw)
             checked == <<Event("AGENT_OBSERVATION", nd.id, NoStr)>> \o
                        (IF PreCheckHalts(nd, draw)
                         THEN <<Event("AGENT_DECISION", nd.id, NoStr)>> ELSE <<>>) \o
                        <<Event("AGENT_PRE_CHECK_END", nd.id, HaltDecision(halt))>>
         IN IF halt
            THEN /\ tracer' = Log(tracer, checked \o <<Event("AGENT_DECISION", nd.id, NoStr),
                                                       Event("EXECUTION_HALTED", NoStr, NoStr)>>)
                 /\ run' = Break([run EXCEPT !.halt_execution = TRUE, !.overall_success = FALSE])
            ELSE /\ tracer' = Log(tracer, checked \o <<Event("AGENT_APPROVAL", nd.id, NoStr)>>)
                 /\ run' = [run EXCEPT !.pc = "a_exec"]
    /\ UNCHANGED <<composer, engine, files, adaptation_log, adapt_call>>

\* the engine is created, loads the node and executes it
AgentExecute ==
    /\ run.mode = "agent"
    /\ run.pc = "a_exec"
    /\ LET nd == run.node_data
           ext == AgentExternalInputs(run.intermediate_outputs, nd.id)
       IN IF nd.state # "ok"
          THEN /\ tracer' = Log(tracer, <<Event("NODE_LOAD_FAILED", nd.id, NoStr),
                                          Event("AGENT_DECISION", nd.id, NoStr)>>)
               /\ composer' = [composer EXCEPT !.execution_results =
                       Put(@, nd.id, ErrorResult("Load/Validation failed"))]
               /\ run' = Break([run EXCEPT !.overall_success = FALSE])
          ELSE \E rnd \in RunRnd :
                 LET ex == EngineExecute(nd, ext, RunImpl, rnd, EmptyMetadata)
                 IN /\ composer' = [composer EXCEPT
                            !.execution_results = Put(@, nd.id, ex.result),
                            !.execution_metadata = Put(@, nd.id, ex.metadata)]
                    /\ IF ex.ok
                       THEN /\ tracer' = Log(tracer, <<Event("NODE_LOAD_SUCCESS", nd.id, NoStr)>>
                                                     \o ex.events)
                            /\ run' = [run EXCEPT !.intermediate_outputs = Put(@, nd.id, ex.result.map),
                                                  !.engine_inputs = Put(@, nd.id, EngineCall(ext, ex)),
                                                  !.pc = "a_post"]
                       ELSE /\ tracer' = Log(tracer, <<Event("NODE_LOAD_SUCCESS", nd.id, NoStr)>>
                                                     \o ex.events \o
                                                     <<Event("AGENT_DECISION", nd.id, NoStr)>>)
                            /\ run' = Break([run EXCEPT !.overall_success = FALSE,
                                                        !.engine_inputs = Put(@, nd.id, EngineCall(ext, ex))])
    /\ UNCHANGED <<engine, files, adaptation_log, adapt_call>>

AgentPostCheck ==
    /\ run.mode = "agent"
    /\ run.pc = "a_post"
    /\ LET nd == run.node_data
           halt == run.halt_execution \/ PostCheckHalts(nd, composer.execution_metadata[nd.id])
           checked == <<Event("AGENT_OBSERVATION", nd.id, NoStr),
                        Event("AGENT_POST_CHECK_END", nd.id, HaltDecision(halt))>>
       IN IF halt
          THEN /\ tracer' = Log(tracer, checked \o <<Event("AGENT_DECISION", nd.id, NoStr),
                                                     Event("EXECUTION_HALTED", NoStr, NoStr)>>)
               /\ run' = Break([run EXCEPT !.halt_execution = TRUE])
          ELSE /\ tracer' = Log(tracer, checked)
               /\ run' = [run EXCEPT !.pc = "a_adapt"]
    /\ UNCHANGED <<composer, engine, files, adaptation_log, adapt_call>>

\* adaptation_manager.evaluate_and_adapt inside the loop's try, then the next entry
\* except Exception as adapt_e: the error is logged and the loop goes on
AbortOnAdaptationError(r) == Break([r EXCEPT !.overall_success = FALSE])
AbsorbAdaptationError(r) ==
    [r EXCEPT !.step = @ + 1, !.pc = "a_head", !.node_data = NoNodeData,
              !.evaluated = @ \cup {r.node_data.id}]

AgentAdapt ==
    /\ run.mode = "agent"
    /\ run.pc = "a_adapt"
    /\ \E draw \in RandomDraws,
          io \in IF run.node_data.strategy.trigger = "none" THEN {"ok"} ELSE {"ok", "raises"} :
         LET nd == run.node_data
             r == EvaluateAndAdapt(files, adaptation_log, AdaptRecord(nd),
                                   composer.execution_metadata[nd.id], TRUE, draw, io)
         IN IF io = "raises"
            THEN /\ tracer' = Log(tracer, <<Event("ADAPTATION_ERROR", nd.id, NoStr)>>)
                 /\ run' = AbsorbAdaptationError(run)
                 /\ UNCHANGED <<files, adaptation_log>>
            ELSE /\ files' = r.files
                 /\ adaptation_log' = r.log
                 /\ tracer' = IF r.ret # NoId
                              THEN Log(tracer, <<Event("AGENT_OBSERVATION", nd.id, NoStr)>>)
                              ELSE tracer
                 /\ run' = [run EXCEPT !.step = @ + 1, !.pc = "a_head", !.node_data = NoNodeData,
                                       !.evaluated = @ \cup {nd.id},
                                       !.adapted_nodes_this_run =
                                           IF r.ret # NoId THEN Put(@, nd.id, r.ret) ELSE @]
    /\ UNCHANGED <<composer, engine, adapt_call>>

AgentEnd ==
    /\ run.mode = "agent"
    /\ \/ run.pc = "a_end"
       \/ run.pc = "a_head" /\ run.step > Len(composer.execution_plan)
    /\ LET final_status == FinalStatus(run.halt_execution, run.overall_success)
       IN /\ tracer' = EndTrace(tracer, final_status,
                               GetFinalResults(composer.execution_plan, composer.nodes,
                                               composer.adj, composer.execution_results))
          /\ run' = [run EXCEPT !.pc = "done", !.final_status = final_status,
                                !.returned = Returned(final_status)]
    /\ UNCHANGED <<composer, engine, files, adaptation_log, adapt_call>>

Init ==
    /\ composer = NewComposer
    /\ run = IdleRun
    /\ tracer = NoTracer
    /\ engine = IdleEngine
    /\ files = EmptyMap
    /\ adaptation_log = <<>>
    /\ adapt_call = IdleAdaptCall

Next ==
    \/ LoadRunNodes
    \/ BuildDagStep
    \/ PlanStep
    \/ InitializeTracer
    \/ ComposerStart
    \/ ComposerStep
    \/ ComposerEnd
    \/ AgentStart
    \/ AgentHead
    \/ AgentPreCheck
    \/ AgentExecute
    \/ AgentPostCheck
    \/ AgentAdapt
    \/ AgentEnd

Spec == Init /\ [][Next]_vars

\* the composer pipeline alone, on every store within the bounds
NextGraph ==
    \/ LoadNodes
    \/ BuildDagStep
    \/ PlanStep

SpecGraph == Init /\ [][NextGraph]_vars

\* ------------------------------------------------ one execution engine
\* declared outputs of a node at most
MaxOutputs == 2

\* the node files an engine is pointed at
EngineNodeData ==
    {[NoNodeData EXCEPT !.id = "N", !.state = "unreadable"]}
    \cup
    {[NoNodeData EXCEPT !.id = "N", !.state = st, !.exec_type = t, !.outputs = outs,
                        !.inputs = {"x"}]
     : st \in {"ok", "invalid"},
       t \in {"none", "Model_Ref", "Subgraph_Ref", "External_Call", "Other"},
       outs \in {o \in SUBSET (OutNames \cup {NoName}) : Cardinality(o) <= MaxOutputs}}

\* what the file {reference}.py does when the engine loads and calls it
EngineImpls ==
    {[kind |-> k, out |-> EmptyMap, serializable |-> TRUE]
     : k \in {"missing", "load_error", "no_run_model", "raises", "non_mapping"}}
    \cup
    {[kind |-> "mapping", out |-> m, serializable |-> sz]
     : m \in UNION {[ks -> {60, 90}] : ks \in SUBSET OutNames}, sz \in BOOLEAN}

EngineRnd ==
    {[val |-> v, conf |-> c, input |-> 0, duration |-> d, tracer |-> tr]
     : v \in [OutNames -> {60, 90}], c \in {60, 90}, d \in {200, 1500}, tr \in BOOLEAN}

\* SCMExecutionEngine.__init__
NewEngine ==
    [state |-> "unloaded", node_data |-> NoNodeData, execution_result |-> MapResult(EmptyMap),
     execution_metadata |-> EmptyMetadata, load_returned |-> NoStr, returned |-> NoStr,
     impl |-> [kind |-> NoStr, out |-> EmptyMap, serializable |-> TRUE], events |-> <<>>]

InitEngine ==
    /\ composer = NewComposer
    /\ run = IdleRun
    /\ tracer = NoTracer
    /\ engine = NewEngine
    /\ files = EmptyMap
    /\ adaptation_log = <<>>
    /\ adapt_call = IdleAdaptCall

\* load_and_validate_node: node_data is set as soon as the file parses
EngineLoad ==
    /\ engine.state = "unloaded"
    /\ \E nd \in EngineNodeData :
         engine' = [engine EXCEPT
             !.node_data = IF nd.state = "unreadable" THEN NoNodeData ELSE nd,
             !.state = IF nd.state = "ok" THEN "loaded" ELSE "load_failed",
             !.load_returned = IF nd.state = "ok" THEN "true" ELSE "false"]
    /\ UNCHANGED <<composer, run, tracer, files, adaptation_log, adapt_call>>

\* execute(external_inputs)
EngineExecuteStep ==
    /\ engine.state \in {"unloaded", "loaded", "load_failed"}
    /\ IF engine.node_data = NoNodeData
       THEN engine' = [engine EXCEPT !.state = "executed", !.returned = "false"]
       ELSE \E ext \in {NoneResult, MapResult([n \in {"x"} |-> 1])},
               impl \in IF engine.node_data.exec_type = "Model_Ref"
                        THEN EngineImpls ELSE {RunImpl},
               rnd \in EngineRnd :
              LET ex == EngineExecute(engine.node_data, ext, impl, rnd, engine.execution_metadata)
              IN engine' = [engine EXCEPT
                     !.state = "executed",
                     !.returned = IF ex.ok THEN "true" ELSE "false",
                     !.execution_result = ex.result,
                     !.execution_metadata = ex.metadata,
                     !.impl = impl,
                     !.events = IF rnd.tracer THEN ex.events ELSE <<>>]
    /\ UNCHANGED <<composer, run, tracer, files, adaptation_log, adapt_call>>

NextEngine ==
    \/ EngineLoad
    \/ EngineExecuteStep

SpecEngine == InitEngine /\ [][NextEngine]_vars

\* -------------------------------------------- one adaptation manager
\* evaluate_and_adapt calls on one node directory at most
MaxAdapt == 2

AdaptVersions ==
    {SemVer(1, 0, 0), SemVer(2, 3, 4), Str("semver", 1, 0, 0, "rc1", 0),
     Str("loose", 1, 2, 3, "", 0), Str("other", 0, 0, 0, "latest", 0), NoVersion}

\* the identifiers a node of version v may carry: name_v<v>, name alone,
\* a name that itself contains "_v", and a suffix that is not the version
AdaptIds(v) ==
    {<<Name("m"), v>>, <<Name("m")>>, <<Name("m"), Name("x"), v>>,
     <<Name("m"), GetNextVersion(IF v = NoVersion THEN SemVer(0, 0, 0) ELSE v)>>}

AdaptStrategies ==
    {NoStrategy} \cup
    {[trigger |-> g, method |-> "Select_New_Algorithm", trigger_condition |-> NoStr]
     : g \in {"Performance_Degradation", "External_Feedback", "Scheduled_Review",
              "Manual_Trigger"}}

\* the node records a directory starts with
AdaptNodes ==
    UNION {{[id |-> i, version |-> v, derived_from |-> NoId, strategy |-> st,
             rationale |-> "initial", author |-> "user"]
            : i \in AdaptIds(v), st \in AdaptStrategies}
           : v \in AdaptVersions}

\* the name (without .json) of the file that holds the record nd: its
\* identifier, or a name of the author's choosing
AdaptFileNames(nd) ==
    {nd.id, <<Name("node")>>, NewNodeId(nd.id, GetNextVersion(VersionOf(nd)))}

AdaptMetrics ==
    {[EmptyMetadata EXCEPT !.simulated_confidence = c, !.execution_duration_ms = d]
     : c \in {NoNum, 60, PERFORMANCE_CONFIDENCE_THRESHOLD},
       d \in {NoNum, PERFORMANCE_TIME_THRESHOLD_MS, 1500}}

InitAdapt ==
    /\ composer = NewComposer
    /\ run = IdleRun
    /\ tracer = NoTracer
    /\ engine = IdleEngine
    /\ \E nd \in AdaptNodes : \E f \in AdaptFileNames(nd) : files = [i \in {f} |-> nd]
    /\ adaptation_log = <<>>
    /\ adapt_call = [op |-> "none", calls |-> 0]

\* the caller loads a node file of the directory and hands its path, the record
\* and the execution metadata to evaluate_and_adapt
EvaluateAndAdaptStep ==
    /\ adapt_call.calls < MaxAdapt
    /\ \E node_path \in DOMAIN files, readable \in BOOLEAN :
       \* the metadata is only looked at when the file opens, random.random() is
       \* only called for the simulated triggers, and the file system is only
       \* written to when a trigger fired
       \E metrics \in IF readable THEN AdaptMetrics ELSE {EmptyMetadata},
          draw \in IF readable /\ files[node_path].strategy.trigger
                                     \in {"External_Feedback", "Scheduled_Review"}
                   THEN RandomDraws ELSE {0} :
       \E io \in IF readable /\ CheckAdaptationTriggers(files[node_path], metrics, draw).fired
                  THEN {"ok", "write_fails", "log_fails"} ELSE {"ok"} :
         LET r == EvaluateAndAdapt(files, adaptation_log, files[node_path], metrics,
                                   readable, draw, io)
         IN /\ files' = r.files
            /\ adaptation_log' = r.log
            /\ adapt_call' = [op |-> "evaluate_and_adapt", calls |-> adapt_call.calls + 1,
                              node_path |-> node_path,
                              original |-> files[node_path], node_after |-> r.node,
                              files_before |-> files, ret |-> r.ret, io |-> io,
                              readable |-> readable, metrics |-> metrics,
                              triggered |-> r.triggered, log_before |-> adaptation_log]
    /\ UNCHANGED <<composer, run, tracer, engine>>

NextAdapt == EvaluateAndAdaptStep

SpecAdapt == InitAdapt /\ [][NextAdapt]_vars

\* ------------------------------------------- evaluate_graph_structure
\* evaluate_graph_structure calls on one orchestrator at most
MaxEvals == 2

\* orchestrator.py: SECURITY_RISK_THRESHOLD = 2
SECURITY_RISK_THRESHOLD == 2

\* what evaluate_graph_structure reads of a loaded node record
EvalRecords ==
    [access_level : {"Public", "Private"}, state_type : {"Stateless", "Stateful"},
     fallback : BOOLEAN, adaptation_strategy : BOOLEAN]

\* self.graph_evaluation = {}
NoEvaluation ==
    [node_count |-> NoNum, public_node_count |-> NoNum, security_risk_level |-> NoStr,
     stateful_node_count |-> NoNum, fallback_policy_count |-> NoNum,
     adaptation_nodes_count |-> NoNum]

\* SCMAgentOrchestrator.__init__; calls and previous: the evaluate calls made
\* and the summary the call before the last returned
NewOrchestrator ==
    [graph_evaluation |-> NoEvaluation, agent_log |-> <<>>, halt_execution |-> FALSE,
     calls |-> 0, previous |-> NoEvaluation]

\* the risk level of a number of Public nodes
RiskLevelAtThreshold(public) ==
    IF public >= SECURITY_RISK_THRESHOLD THEN "High"
    ELSE IF public > 0 THEN "Medium" ELSE "Low"
RiskLevel(public) ==
    IF public > SECURITY_RISK_THRESHOLD THEN "High"
    ELSE IF public > 0 THEN "Medium" ELSE "Low"

\* the summary and the agent log of one evaluation of the node map
EvaluateGraphStructure(nodes, records) ==
    LET ids == Range(nodes)
        public == Cardinality({n \in ids : records[n].access_level = "Public"})
        stateful == Cardinality({n \in ids : records[n].state_type = "Stateful"})
        fallbacks == Cardinality({n \in ids : records[n].fallback})
        adaptation == Cardinality({n \in ids : records[n].adaptation_strategy})
    IN [summary |-> [node_count |-> Len(nodes), public_node_count |-> public,
                     security_risk_level |-> RiskLevel(public),
                     stateful_node_count |-> stateful,
                     fallback_policy_count |-> fallbacks,
                     adaptation_nodes_count |-> adaptation],
        log |-> <<"OBSERVATION">>
                \o (IF public > SECURITY_RISK_THRESHOLD THEN <<"DECISION">>
                    ELSE IF public > 0 THEN <<"OBSERVATION">> ELSE <<>>)
                \o (IF stateful > 0 THEN <<"OBSERVATION">> ELSE <<>>)
                \o (IF fallbacks > 0 THEN <<"OBSERVATION">> ELSE <<>>)
                \o (IF adaptation > 0 THEN <<"OBSERVATION">> ELSE <<>>)]

\* the events of one evaluation: start, one per agent log entry, end
EvaluationEvents(log) ==
    <<Event("AGENT_EVAL_START", NoStr, NoStr)>>
    \o [i \in 1..Len(log) |-> Event("AGENT_" \o log[i], NoStr, NoStr)]
    \o <<Event("AGENT_EVAL_END", NoStr, NoStr)>>

\* a composer that loaded, built and planned k independent nodes
PlannedComposer(k, records) ==
    LET st == ShapedStore(k, "independent")
        b == BuildDag(st.nodes, st.deps)
        g == GenerateExecutionPlan(st.nodes, b.adj, b.in_degree)
    IN [NewComposer EXCEPT !.phase = "planned", !.nodes = st.nodes, !.depends_on = st.deps,
                           !.adj = b.adj, !.in_degree = b.in_degree,
                           !.execution_plan = g.plan, !.node_records = records]

InitEval ==
    /\ \E k \in 1..MaxNodes :
         \E records \in [Range(SubSeq(AllIds, 1, k)) -> EvalRecords] :
            composer = PlannedComposer(k, records)
    /\ \E h \in BOOLEAN : run = [NewOrchestrator EXCEPT !.halt_execution = h]
    /\ tracer \in {NoTracer, [NoTracer EXCEPT !.active = TRUE, !.status = "RUNNING"]}
    /\ engine = IdleEngine
    /\ files = EmptyMap
    /\ adaptation_log = <<>>
    /\ adapt_call = IdleAdaptCall

\* evaluate_graph_structure
EvaluateStep ==
    /\ run.calls < MaxEvals
    /\ LET ev == EvaluateGraphStructure(composer.nodes, composer.node_records)
       IN /\ run' = [run EXCEPT !.graph_evaluation = ev.summary, !.agent_log = ev.log,
                                !.calls = @ + 1, !.previous = run.graph_evaluation]
          /\ tracer' = Log(tracer, EvaluationEvents(ev.log))
    /\ UNCHANGED <<composer, engine, files, adaptation_log, adapt_call>>

NextEval == EvaluateStep

SpecEval == InitEval /\ [][NextEval]_vars

\* --------------------------------- agent_post_execution_check on policies
\* resilience policies of a node at most
MaxPolicies == 2

\* policy.get("action") and policy.get("condition"), the condition by its words
PolicyActions == {"Fallback", "Alert"}
PolicyConditions == {<<"confidence", "<", "0.7">>, <<"Confidence", "low">>,
                     <<"latency", "high">>}
ResiliencePolicies == [action : PolicyActions, condition : PolicyConditions]

\* str.lower() on a word of a condition
Lower(w) == IF w = "Confidence" THEN "confidence" ELSE w

\* "confidence" in policy.get("condition", "").lower()
MentionsConfidence(condition) ==
    \E j \in 1..Len(condition) : Lower(condition[j]) = "confidence"

\* can_fallback after the loop over node_data.get("resilience_policy", [])
AnyFallbackPolicy(policies) ==
    \E j \in 1..Len(policies) : policies[j].action = "Fallback"
CanFallback(policies) ==
    \E j \in 1..Len(policies) :
        MentionsConfidence(policies[j].condition) /\ policies[j].action = "Fallback"

\* the policy lists of at most n policies
RECURSIVE PolicyLists(_)
PolicyLists(n) ==
    IF n = 0 THEN {<<>>}
    ELSE PolicyLists(n - 1) \cup
         {Append(l, p) : l \in {x \in PolicyLists(n - 1) : Len(x) = n - 1},
                         p \in ResiliencePolicies}

\* metadata.get("simulated_confidence"): absent, below, at and above the threshold
PostCheckConfidences == {NoNum, 60, CONFIDENCE_THRESHOLD_LOW, 90}

\* the events one agent_post_execution_check logs
PostCheckEvents(nd, policies, metadata, alert, halt) ==
    LET c == metadata.simulated_confidence
        low == c # NoNum /\ c < CONFIDENCE_THRESHOLD_LOW
    IN <<Event("AGENT_OBSERVATION", nd.id, "POST_CHECK_START")>> \o
       (IF c # NoNum THEN <<Event("AGENT_OBSERVATION", nd.id, "confidence")>> ELSE <<>>) \o
       (IF low THEN <<Event("AGENT_DECISION", nd.id, "below threshold"),
                      Event("AGENT_DECISION", nd.id,
                            IF CanFallback(policies) THEN "suggest fallback"
                            ELSE "suggest halt")>>
        ELSE <<>>) \o
       (IF alert /\ \E j \in 1..Len(policies) : policies[j].action = "Alert"
        THEN <<Event("AGENT_OBSERVATION", nd.id, "alert")>> ELSE <<>>) \o
       <<Event("AGENT_POST_CHECK_END", nd.id, HaltDecision(halt))>>

\* a run that is about to post-check node A, which executed with the metadata
\* in execution_metadata; adapt_call holds the node's policies
InitPostCheck ==
    /\ \E c \in PostCheckConfidences :
         composer = [NewComposer EXCEPT
                        !.phase = "planned", !.nodes = <<"A">>,
                        !.execution_plan = <<"A">>,
                        !.execution_results = Put(EmptyMap, "A", MapResult(EmptyMap)),
                        !.execution_metadata =
                            Put(EmptyMap, "A", [EmptyMetadata EXCEPT !.simulated_confidence = c])]
    /\ \E policies \in PolicyLists(MaxPolicies), h \in BOOLEAN :
         /\ run = [IdleRun EXCEPT !.mode = "agent", !.pc = "a_post", !.step = 1,
                                  !.halt_execution = h,
                                  !.node_data = [NoNodeData EXCEPT
                                                    !.id = "A", !.state = "ok",
                                                    !.fallback = CanFallback(policies)]]
         /\ adapt_call = [op |-> "post_check", policies |-> policies, halt_before |-> h]
    /\ tracer = [NoTracer EXCEPT !.active = TRUE, !.status = "RUNNING"]
    /\ engine = IdleEngine
    /\ files = EmptyMap
    /\ adaptation_log = <<>>

\* agent_post_execution_check(node_id, node_data, result, metadata)
PostCheckStep ==
    /\ run.mode = "agent"
    /\ run.pc = "a_post"
    /\ adapt_call.op = "post_check"
    /\ \E alert \in BOOLEAN :
         LET nd == run.node_data
             metadata == composer.execution_metadata[nd.id]
             halt == run.halt_execution \/ PostCheckHalts(nd, metadata)
         IN /\ run' = [run EXCEPT !.halt_execution = halt, !.pc = "a_checked"]
            /\ tracer' = Log(tracer, PostCheckEvents(nd, adapt_call.policies, metadata,
                                                     alert, halt))
    /\ UNCHANGED <<composer, engine, files, adaptation_log, adapt_call>>

NextPostCheck == PostCheckStep

SpecPostCheck == InitPostCheck /\ [][NextPostCheck]_vars

\* ------------------------------------------ log_event on one tracer
\* log_event calls on one tracer at most
MaxEvents == 2

\* the events a caller may hand to log_event: their type, their node id (or
\* none) and the value of data.get("status")
LoggedEvents ==
    {Event(type, node, status) :
        type \in {"AGENT_DECISION", "NODE_ERROR", "NODE_END", "NODE_EXEC_END"},
        node \in {NoStr, "A", "B"},
        status \in {NoStr, "SUCCESS", "FAILED"}}

\* initialize_tracer was called; adapt_call holds the last log_event call
InitTracer ==
    /\ composer = NewComposer
    /\ run = IdleRun
    /\ tracer = [NoTracer EXCEPT !.active = TRUE, !.status = "RUNNING"]
    /\ engine = IdleEngine
    /\ files = EmptyMap
    /\ adaptation_log = <<>>
    /\ adapt_call = [op |-> "none", calls |-> 0]

\* tracer.log_event(event_type, data, node_id)
LogEventStep ==
    /\ adapt_call.calls < MaxEvents
    /\ \E e \in LoggedEvents, written \in BOOLEAN :
         /\ tracer' = LogEvent(tracer, e, written)
         /\ adapt_call' = [op |-> "log_event", calls |-> adapt_call.calls + 1,
                           event |-> e, written |-> written, before |-> tracer]
    /\ UNCHANGED <<composer, run, engine, files, adaptation_log>>

NextTracer == LogEventStep

SpecTracer == InitTracer /\ [][NextTracer]_vars

\* ------------------------------------- a second run on one controller
\* the composer after load_nodes, build_dag and generate_execution_plan
\* succeeded on the store st
PlannedOn(st) ==
    LET b == BuildDag(st.nodes, st.deps)
        g == GenerateExecutionPlan(st.nodes, b.adj, b.in_degree)
    IN [NewComposer EXCEPT !.phase = "planned", !.nodes = st.nodes, !.depends_on = st.deps,
                           !.adj = b.adj, !.in_degree = b.in_degree,
                           !.execution_plan = g.plan]

\* what an earlier run on the plan left behind in the result holders and in
\* the agent's halt flag: it succeeded, it was halted by the post-check of
\* the first node, it failed on the first node, or it was halted by the
\* pre-check of the first node
PreviousRuns(plan) ==
    LET first == {plan[1]}
        done(ns) == [n \in ns |-> MapResult(EmptyMap)]
        meta(ns) == [n \in ns |-> [EmptyMetadata EXCEPT !.execution_mode = "simulation"]]
    IN {[results |-> done(Range(plan)), metadata |-> meta(Range(plan)), halt |-> FALSE],
        [results |-> done(first), metadata |-> meta(first), halt |-> TRUE],
        [results |-> [n \in first |-> ErrorResult("Load/Validation failed")],
         metadata |-> EmptyMap, halt |-> FALSE],
        [results |-> EmptyMap, metadata |-> EmptyMap, halt |-> TRUE]}

\* a controller after an earlier run, with a tracer initialized for the next;
\* adapt_call holds what the earlier run left
InitRerun ==
    /\ \E k \in 1..MaxRunNodes, sh \in {"independent", "chain"} :
         LET c == PlannedOn(ShapedStore(k, sh))
         IN \E prev \in PreviousRuns(c.execution_plan) :
              /\ composer = [c EXCEPT !.execution_results = prev.results,
                                      !.execution_metadata = prev.metadata]
              /\ run = [IdleRun EXCEPT !.halt_execution = prev.halt]
              /\ adapt_call = [op |-> "previous_run", previous |-> prev]
    /\ tracer = [NoTracer EXCEPT !.active = TRUE, !.status = "RUNNING"]
    /\ engine = IdleEngine
    /\ files = EmptyMap
    /\ adaptation_log = <<>>

NextRerun ==
    \/ ComposerStart
    \/ ComposerStep
    \/ ComposerEnd
    \/ AgentStart
    \/ AgentHead
    \/ AgentPreCheck
    \/ AgentExecute
    \/ AgentPostCheck
    \/ AgentAdapt
    \/ AgentEnd

SpecRerun == InitRerun /\ [][NextRerun]_vars

\* ------------------------------------------------ load_nodes on files
\* *.json files of a node folder at most
MaxFiles == 3

\* the *.json files a folder may hold, by what load_nodes finds in them: JSON
\* that does not parse, a record without "@id", a record the schema rejects,
\* a valid record
FileKinds == {"unparsable", "no_id", "invalid", "valid"}
FolderFile(name, kind, id) == [name |-> name, kind |-> kind, id |-> id]
FileName(i) == <<"file", i>>

\* self.nodes[node_id] = node_data; self.node_paths[node_id] = file_path.
\* nodes: the keys of self.nodes in insertion order
StoreNodeUnlessLoaded(acc, f) ==
    IF f.id \in Range(acc.nodes) THEN [acc EXCEPT !.loaded_count = @ + 1]
    ELSE [acc EXCEPT !.nodes = Append(@, f.id),
                     !.node_records = Put(@, f.id, [loaded_from |-> f.name]),
                     !.node_paths = Put(@, f.id, f.name),
                     !.loaded_count = @ + 1]
StoreNode(acc, f) ==
    [acc EXCEPT !.nodes = IF f.id \in Range(@) THEN @ ELSE Append(@, f.id),
                !.node_records = Put(@, f.id, [loaded_from |-> f.name]),
                !.node_paths = Put(@, f.id, f.name),
                !.loaded_count = @ + 1]

\* the loop of load_nodes over the files in glob order
RECURSIVE LoadLoop(_, _)
LoadLoop(dir, acc) ==
    IF dir = <<>> THEN acc
    ELSE LoadLoop(Tail(dir),
                  IF Head(dir).kind = "valid" THEN StoreNode(acc, Head(dir)) ELSE acc)

\* load_nodes: the maps afterwards and the value returned
LoadNodesFrom(is_dir, dir) ==
    LET acc == IF is_dir
               THEN LoadLoop(dir, [nodes |-> <<>>, node_records |-> EmptyMap,
                                   node_paths |-> EmptyMap, loaded_count |-> 0])
               ELSE [nodes |-> <<>>, node_records |-> EmptyMap,
                     node_paths |-> EmptyMap, loaded_count |-> 0]
    IN [nodes |-> acc.nodes, node_records |-> acc.node_records,
        node_paths |-> acc.node_paths, ok |-> acc.loaded_count # 0]

\* the folder: whether it is a directory, and its files in glob order
InitLoad ==
    /\ composer = NewComposer
    /\ run = IdleRun
    /\ tracer = NoTracer
    /\ engine = IdleEngine
    /\ \E n \in 0..MaxFiles, is_dir \in BOOLEAN :
         \E kinds \in [1..n -> FileKinds], ids \in [1..n -> {"A", "B"}] :
            files = [is_dir |-> is_dir,
                     dir |-> [i \in 1..n |-> FolderFile(FileName(i), kinds[i], ids[i])]]
    /\ adaptation_log = <<>>
    /\ adapt_call = IdleAdaptCall

LoadFolder ==
    /\ composer.phase = "new"
    /\ LET l == LoadNodesFrom(files.is_dir, files.dir)
       IN composer' = [composer EXCEPT
              !.nodes = l.nodes, !.node_records = l.node_records,
              !.node_paths = l.node_paths,
              !.depends_on = [n \in Range(l.nodes) |-> <<>>],
              !.phase = IF l.ok THEN "loaded" ELSE "load_failed"]
    /\ UNCHANGED <<run, tracer, engine, files, adaptation_log, adapt_call>>

NextLoad == LoadFolder

SpecLoad == InitLoad /\ [][NextLoad]_vars

\* =============================================================== claims
\* the declared dependency edges dep -> node among the loaded nodes
LoadedEdges ==
    {<<composer.depends_on[n][j], n>>
     : <<n, j>> \in {p \in Range(composer.nodes) \X (1..(MaxDeps + 1)) :
                       /\ p[2] <= Len(composer.depends_on[p[1]])
                       /\ composer.depends_on[p[1]][p[2]] \in Range(composer.nodes)}}

\* the dependency entries build_dag must reject
MissingEntries ==
    {p \in Range(composer.nodes) \X (1..(MaxDeps + 1)) :
        /\ p[2] <= Len(composer.depends_on[p[1]])
        /\ composer.depends_on[p[1]][p[2]] \notin Range(composer.nodes)}

\* the dependency relation has a cycle: a non-empty set of loaded nodes each of
\* which depends on a member of the set
DependencyCycle ==
    \E S \in (SUBSET Range(composer.nodes)) \ {{}} :
        \A n \in S : \E e \in LoadedEdges : e[2] = n /\ e[1] \in S

IsChainABC ==
    /\ composer.nodes = <<"A", "B", "C">>
    /\ composer.depends_on = [n \in {"A", "B", "C"} |->
                                 IF n = "A" THEN <<>> ELSE IF n = "B" THEN <<"A">> ELSE <<"B">>]

\* C1: when generate_execution_plan succeeds after a successful build_dag, the
\* plan holds every loaded node exactly once and every dependency comes before
\* the node that declares it; the chain A->B->C is planned as [A, B, C].
C1_PlanIsTopologicalOrder ==
    composer.phase = "planned" =>
        LET plan == composer.execution_plan
        IN /\ Len(plan) = Len(composer.nodes)
           /\ Range(plan) = Range(composer.nodes)
           /\ \A i, j \in 1..Len(plan) : plan[i] = plan[j] => i = j
           /\ \A e \in LoadedEdges : IndexOf(plan, e[1]) < IndexOf(plan, e[2])
           /\ IsChainABC => plan = <<"A", "B", "C">>

C1_Witness ==
    /\ composer.phase = "planned"
    /\ IsChainABC
    /\ composer.execution_plan = <<"A", "B", "C">>

\* C2: generate_execution_plan fails exactly when the dependency relation over
\* the loaded nodes has a cycle (self-dependency included); the reported cycle
\* set is then the set of nodes that still wait for an unplanned dependency,
\* which is the set of nodes not in the plan; A<->B reports both A and B.
C2_FailsIffCycle ==
    composer.phase \in {"planned", "plan_failed"} =>
        LET plan == composer.execution_plan
            residual == {n \in Range(composer.nodes) :
                            \E e \in LoadedEdges : e[2] = n /\ e[1] \notin Range(plan)}
        IN /\ composer.phase = "plan_failed" <=> DependencyCycle
           /\ composer.phase = "plan_failed" =>
                /\ composer.cycle_nodes = residual
                /\ composer.cycle_nodes = Range(composer.nodes) \ Range(plan)
                /\ composer.cycle_nodes # {}
           /\ (composer.nodes = <<"A", "B">>
               /\ composer.depends_on["A"] = <<"B">> /\ composer.depends_on["B"] = <<"A">>)
              => composer.phase = "plan_failed" /\ composer.cycle_nodes = {"A", "B"}

C2_Witness ==
    /\ composer.phase = "plan_failed"
    /\ composer.nodes = <<"A", "B">>
    /\ composer.depends_on["A"] = <<"B">>
    /\ composer.depends_on["B"] = <<"A">>
    /\ composer.cycle_nodes = {"A", "B"}

\* C3: build_dag fails exactly when some dependency entry of a loaded node has
\* no node_ref or names an identifier that is not loaded, and it reports every
\* such entry, not only the first.
C3_BuildReportsEveryMissingRef ==
    composer.phase \notin {"new", "load_failed", "loaded"} =>
        /\ composer.phase = "build_failed" <=> MissingEntries # {}
        /\ Len(composer.build_errors) = Cardinality(MissingEntries)
        /\ Range(composer.build_errors) =
              {<<p[1], composer.depends_on[p[1]][p[2]]>> : p \in MissingEntries}

C3_Witness ==
    /\ composer.phase = "build_failed"
    /\ Len(composer.build_errors) >= 2
    /\ \E i, j \in 1..Len(composer.build_errors) :
          /\ i < j
          /\ composer.build_errors[i][2] = NoRef
          /\ composer.build_errors[j][2] = MissingId

\* ---------------------------------------------------------------- runs
\* positions of the trace where an engine started a node, in order
ExecStarts == SelectSeq(tracer.events, LAMBDA e : e.event_type = "NODE_EXEC_START")

IsStart(e) == e.event_type = "NODE_EXEC_START"
IsSuccessEnd(e, n) ==
    e.event_type = "NODE_EXEC_END" /\ e.node_id = n /\ e.status = "SUCCESS"
\* a node load/validation or execution failure in the trace
IsFailure(e) ==
    \/ e.event_type \in {"NODE_LOAD_FAILED", "NODE_ERROR"}
    \/ e.event_type = "NODE_EXEC_END" /\ e.status = "FAILED"
\* the engine touched a node: it loaded it or started it
IsNodeWork(e) ==
    e.event_type \in {"NODE_LOAD_SUCCESS", "NODE_LOAD_FAILED", "NODE_EXEC_START"}

\* s is a prefix of t
IsPrefix(s, t) == Len(s) <= Len(t) /\ \A i \in 1..Len(s) : s[i] = t[i]

\* the keys of d are the first entries of the plan
HoldersArePlanPrefix(d) ==
    \E k \in 0..Len(composer.execution_plan) :
        DOMAIN d = {composer.execution_plan[i] : i \in 1..k}

InRun == run.mode \in {"composer", "agent"} /\ tracer.active

\* C4: in a composer run and in an agent run, nodes are executed one at a time
\* in plan order, each at most once, and a node is started only after every
\* node it depends on finished with success in this run.
C4_SerialPlanOrder ==
    InRun =>
        LET ev == tracer.events
            started == [i \in 1..Len(ExecStarts) |-> ExecStarts[i].node_id]
        IN /\ IsPrefix(started, composer.execution_plan)
           /\ \A i, j \in 1..Len(started) : started[i] = started[j] => i = j
           /\ \A i, j \in 1..Len(ev) :
                (i < j /\ IsStart(ev[i]) /\ IsStart(ev[j]))
                => \E k \in (i+1)..(j-1) : IsSuccessEnd(ev[k], ev[i].node_id)
           /\ \A j \in 1..Len(ev) :
                IsStart(ev[j]) =>
                    \A e \in LoadedEdges :
                        e[2] = ev[j].node_id
                        => \E i \in 1..(j-1) : IsSuccessEnd(ev[i], e[1])

C4_Witness ==
    /\ run.mode = "composer"
    /\ run.pc = "done"
    /\ run.final_status = "SUCCESS"
    /\ composer.nodes = <<"A", "B">>
    /\ composer.depends_on["A"] = <<"B">>
    /\ composer.execution_plan = <<"B", "A">>
    /\ Len(ExecStarts) = 2

\* C5 (state part): the nodes holding a result are a prefix of the plan; no
\* node is loaded or started after a failure in the trace; a run that failed
\* without a halt ends FAILED.
C5_State ==
    InRun =>
        LET ev == tracer.events
        IN /\ HoldersArePlanPrefix(composer.execution_results)
           /\ \A i, j \in 1..Len(ev) :
                (i < j /\ IsFailure(ev[i])) => ~IsNodeWork(ev[j])
           /\ \A n \in DOMAIN composer.execution_results :
                composer.execution_results[n].kind = "error"
                => /\ ~run.overall_success
                   /\ n = composer.execution_plan[Cardinality(DOMAIN composer.execution_results)]
           /\ (run.pc = "done" /\ ~run.overall_success /\ ~run.halt_execution)
              => run.final_status = "FAILED" /\ run.returned = "false"
           /\ (run.pc = "done" /\ \E i \in 1..Len(ev) : IsFailure(ev[i]))
              => run.final_status = "FAILED"

\* C5 (step part): once a failure is recorded, no later step loads or executes
\* a node or adds a result, and the only step left ends the run.
C5_Step ==
    (InRun /\ ~run.overall_success)
    => /\ composer' = composer
       /\ run'.pc = "done"
       /\ \A j \in (Len(tracer.events) + 1)..Len(tracer'.events) :
             ~IsNodeWork(tracer'.events[j])

\* C5: fail-fast.  After a node's load, validation or execution failed, no
\* later plan node is loaded or executed, the failed node is not retried, the
\* final status is FAILED, and the result holders are a prefix of the plan.
C5_FailFast == []C5_State /\ [][C5_Step]_vars

C5_Witness ==
    /\ run.mode = "agent"
    /\ run.pc = "done"
    /\ run.final_status = "FAILED"
    /\ Len(composer.execution_plan) = 2
    /\ DOMAIN composer.execution_results = {composer.execution_plan[1]}
    /\ composer.execution_results[composer.execution_plan[1]].kind = "error"

\* every plan node was executed with success in this run
AllPlannedSucceeded ==
    \A n \in Range(composer.execution_plan) :
        /\ n \in DOMAIN composer.execution_results
        /\ composer.execution_results[n].kind = "map"
        /\ \E i \in 1..Len(tracer.events) : IsSuccessEnd(tracer.events[i], n)

\* C6: an agent run ends SUCCESS, HALTED or FAILED; SUCCESS exactly when every
\* planned node executed with success, the halt flag was not set and nothing
\* failed; the call returns true exactly when the status is SUCCESS.
C6_AgentFinalStatus ==
    (run.mode = "agent" /\ run.pc = "done") =>
        /\ run.returned = "true" <=> run.final_status = "SUCCESS"
        /\ tracer.active =>
             /\ run.final_status \in {"SUCCESS", "HALTED", "FAILED"}
             /\ tracer.status = run.final_status
             /\ run.final_status = "SUCCESS"
                <=> /\ AllPlannedSucceeded
                    /\ ~run.halt_execution
                    /\ \A i \in 1..Len(tracer.events) :
                          /\ ~IsFailure(tracer.events[i])
                          /\ tracer.events[i].event_type # "EXECUTION_HALTED"

C6_Witness ==
    /\ run.mode = "agent"
    /\ run.pc = "done"
    /\ run.final_status = "SUCCESS"
    /\ run.returned = "true"
    /\ Len(composer.execution_plan) = 2

\* the post-check of the node just executed finds a confidence below the
\* threshold and no Fallback policy
LowConfidenceNoFallback ==
    /\ run.mode = "agent"
    /\ run.pc = "a_post"
    /\ composer.execution_metadata[run.node_data.id].simulated_confidence # NoNum
    /\ composer.execution_metadata[run.node_data.id].simulated_confidence < CONFIDENCE_THRESHOLD_LOW
    /\ ~run.node_data.fallback

\* the run was halted by a post-check: the flag is set and nothing failed
HaltedByPostCheck == run.mode = "agent" /\ run.halt_execution /\ run.overall_success

\* C7 (state part): a run halted by the post-check of N ends HALTED and N is
\* the last node executed.
C7_State ==
    (HaltedByPostCheck /\ run.pc = "done") =>
        /\ run.final_status = "HALTED"
        /\ tracer.status = "HALTED"
        /\ HoldersArePlanPrefix(composer.execution_results)
        /\ DOMAIN composer.execution_metadata = DOMAIN composer.execution_results
        /\ Len(ExecStarts) = Cardinality(DOMAIN composer.execution_results)
        /\ \A n \in DOMAIN composer.execution_results :
              composer.execution_results[n].kind = "map"

\* C7 (step part): the post-check halts on low confidence without fallback, and
\* from the halt on the result and metadata maps do not change.
C7_Step ==
    /\ LowConfidenceNoFallback
       => run'.halt_execution /\ run'.pc = "a_end" /\ composer' = composer
    /\ HaltedByPostCheck
       => /\ composer' = composer
          /\ run'.pc = "done"
          /\ Len(SelectSeq(tracer'.events, IsStart)) = Len(ExecStarts)

\* C7: when the post-check sets the halt flag after node N, the run ends
\* HALTED, no node after N is executed and the results and metadata of N and
\* of the nodes before it stay as they were.
C7_PostCheckHalt == []C7_State /\ [][C7_Step]_vars

C7_Witness ==
    /\ HaltedByPostCheck
    /\ run.pc = "done"
    /\ run.final_status = "HALTED"
    /\ Len(composer.execution_plan) = 2
    /\ DOMAIN composer.execution_results = {composer.execution_plan[1]}
    /\ composer.execution_metadata[composer.execution_plan[1]].simulated_confidence
          < CONFIDENCE_THRESHOLD_LOW

\* -------------------------------------------------------------- engine
\* the implementation a Model_Ref node refers to cannot serve the node: it is
\* missing, fails to load, has no run_model, raises, returns something that
\* is no mapping, or returns a mapping without one of the declared outputs
PluginFails ==
    \/ engine.impl.kind \in {"missing", "load_error", "no_run_model", "raises", "non_mapping"}
    \/ /\ engine.impl.kind = "mapping"
       /\ ~((engine.node_data.outputs \ {NoName}) \subseteq DOMAIN engine.impl.out)

\* C8: execute on a loaded Model_Ref node whose implementation is missing,
\* raises, returns a non-mapping or returns a mapping lacking a declared output
\* returns success, with execution_mode simulation_fallback and a result that
\* holds every declared output name.
C8_ModelRefFallsBack ==
    (/\ engine.state = "executed"
     /\ engine.node_data.state = "ok"
     /\ engine.node_data.exec_type = "Model_Ref"
     /\ PluginFails)
    => /\ engine.returned = "true"
       /\ engine.execution_metadata.execution_mode = "simulation_fallback"
       /\ engine.execution_result.kind = "map"
       /\ (engine.node_data.outputs \ {NoName}) \subseteq DOMAIN engine.execution_result.map
       /\ \A i \in 1..Len(engine.events) :
             ~(engine.events[i].event_type = "NODE_EXEC_END"
               /\ engine.events[i].status = "FAILED")

C8_Witness ==
    /\ engine.state = "executed"
    /\ engine.node_data.exec_type = "Model_Ref"
    /\ engine.node_data.outputs = {"y", "forecast_confidence"}
    /\ engine.impl.kind = "mapping"
    /\ DOMAIN engine.impl.out = {"y"}
    /\ engine.returned = "true"
    /\ engine.execution_metadata.execution_mode = "simulation_fallback"
    /\ DOMAIN engine.execution_result.map = {"y", "forecast_confidence"}

\* ---------------------------------------------------------- adaptation
\* the last evaluate_and_adapt call adapted the node and returned the new id
Adapted == adapt_call.op = "evaluate_and_adapt" /\ adapt_call.ret # NoId

\* C9: an adaptation of a node at a well-formed version X.Y.Z writes a node at
\* version X.(Y+1).0 whose derived_from is the identifier of the node adapted;
\* 1.0.0 gives 1.1.0, and adapting that node gives 1.2.0 derived from it.
C9_MinorBumpAndLineage ==
    (Adapted /\ adapt_call.original.version.shape \in {"semver", "loose"}) =>
        LET old == adapt_call.original
            new == files[adapt_call.ret]
        IN /\ new.id = adapt_call.ret
           /\ new.version.major = old.version.major
           /\ new.version.minor = old.version.minor + 1
           /\ new.version.patch = 0
           /\ new.version.shape = old.version.shape
           /\ new.version.adapted = 0
           /\ new.derived_from = old.id
           /\ old.version = SemVer(1, 0, 0) => new.version = SemVer(1, 1, 0)
           /\ old.version = SemVer(1, 1, 0) => new.version = SemVer(1, 2, 0)

C9_Witness ==
    /\ Adapted
    /\ adapt_call.calls = 2
    /\ adapt_call.original.version = SemVer(1, 1, 0)
    /\ adapt_call.original.derived_from = <<Name("m"), SemVer(1, 0, 0)>>
    /\ adapt_call.original.id = <<Name("m"), SemVer(1, 1, 0)>>
    /\ files[adapt_call.ret].version = SemVer(1, 2, 0)
    /\ files[adapt_call.ret].derived_from = <<Name("m"), SemVer(1, 1, 0)>>

\* C10: perform_adaptation never overwrites the original: the new identifier
\* differs from the original identifier, the new node goes to a file other
\* than the original's file, and the original's stored record is the same
\* before and after.
C10_OriginalNeverOverwritten ==
    Adapted =>
        /\ adapt_call.ret # adapt_call.original.id
        /\ adapt_call.ret # adapt_call.node_path
        /\ adapt_call.node_path \in DOMAIN files
        /\ files[adapt_call.node_path] = adapt_call.original

\* ------------------------------------------------- pipeline failures
PipelineFailed == composer.phase \in {"load_failed", "build_failed", "plan_failed"}

\* C11: when load_nodes, build_dag or generate_execution_plan failed, no run
\* is started: no engine executes a node and the result and metadata maps
\* stay empty.
C11_NoRunAfterPipelineFailure ==
    PipelineFailed =>
        /\ run.mode = "none"
        /\ composer.execution_results = EmptyMap
        /\ composer.execution_metadata = EmptyMap
        /\ \A i \in 1..Len(tracer.events) : ~IsNodeWork(tracer.events[i])

\* planning failed on a cycle and left a partial, non-empty plan behind
C11_Witness ==
    /\ composer.phase = "plan_failed"
    /\ composer.execution_plan # <<>>
    /\ tracer.active
    /\ run.mode = "none"

\* ------------------------------------------------------- data flow
\* the upstream nodes of n that succeeded in this run
SucceededUpstream(n) ==
    {ref \in Range(composer.depends_on[n]) : ref \in DOMAIN run.intermediate_outputs}

\* C12: in an agent-controlled run a node that executes after a succeeded
\* node it depends on is handed that node's outputs as external inputs, not
\* generated mock inputs.
C12_AgentThreadsOutputs ==
    run.mode = "agent" =>
        \A n \in DOMAIN run.engine_inputs :
            \A ref \in SucceededUpstream(n) \ {n} :
                /\ run.engine_inputs[n].input_source # "generated_mock"
                /\ run.engine_inputs[n].external = MapResult(run.intermediate_outputs[ref])

\* the composer's check of one input definition of node n against the
\* outputs of the run
Produced(d) ==
    /\ d.source \in DOMAIN run.intermediate_outputs
    /\ d.input_name \in DOMAIN run.intermediate_outputs[d.source]

\* C13: in a bare composer run every declared input whose source executed
\* and produced the name reaches the engine with the source's value; an input
\* whose source did not execute or did not produce the name stops the run
\* FAILED with the node not executed.
C13_ComposerPassesOutputs ==
    run.mode = "composer" =>
        \A n \in DOMAIN run.input_defs :
            \A i \in 1..Len(run.input_defs[n]) :
                LET d == run.input_defs[n][i]
                IN IF Produced(d)
                   THEN n \in DOMAIN run.engine_inputs =>
                          LET call == run.engine_inputs[n]
                              v == run.intermediate_outputs[d.source][d.input_name]
                          IN /\ call.external.kind = "map"
                             /\ d.input_name \in DOMAIN call.external.map
                             /\ call.external.map[d.input_name] = v
                             /\ call.inputs[d.input_name] = v
                             /\ call.input_source = "composer"
                   ELSE d.source # "external_parameter" =>
                          /\ n \notin DOMAIN run.engine_inputs
                          /\ n \notin DOMAIN composer.execution_results
                          /\ ~run.overall_success
                          /\ run.pc = "done" =>
                                run.final_status = "FAILED" /\ run.returned = "false"

\* B declared the input confidence from A and its engine worked on the value
\* A produced, not on a mock value
C13_Witness ==
    /\ run.mode = "composer"
    /\ run.pc = "done"
    /\ "B" \in DOMAIN run.engine_inputs
    /\ run.input_defs["B"] = <<[input_name |-> "confidence", source |-> "A"]>>
    /\ run.engine_inputs["B"].inputs = [n \in {"confidence"} |-> 60]

\* ------------------------------------------------- engine life cycle
\* execute was called and went as far as choosing an execution path
Dispatched == engine.execution_metadata.execution_mode # NoStr

\* C14: after load_and_validate_node returned false the engine is in a
\* terminal failed state: a later execute never dispatches the node and never
\* returns true.
C14_LoadFailureIsTerminal ==
    (engine.state = "executed" /\ engine.load_returned = "false") =>
        engine.returned = "false" /\ ~Dispatched

\* C15: execute returns true only with a result mapping; on every path where
\* it returns false, the engine not being loaded included, the engine's result
\* is a structured error marker; and a node whose execution type is none of
\* Model_Ref, Subgraph_Ref, External_Call fails without any dispatch.
C15_FalseLeavesErrorMarker ==
    engine.state = "executed" =>
        /\ engine.returned = "true" => engine.execution_result.kind = "map"
        /\ engine.returned = "false" => engine.execution_result.kind = "error"
        /\ (/\ engine.node_data # NoNodeData
            /\ engine.node_data.exec_type \notin {"Model_Ref", "Subgraph_Ref", "External_Call"})
           => engine.returned = "false" /\ ~Dispatched

\* C16: after every execute call on a loaded engine, whatever it returned,
\* the metadata holds execution_duration_ms and an execution_mode among
\* real_model_attempt, real_model_success, simulation, simulation_fallback.
C16_MetadataAlwaysRecorded ==
    (engine.state = "executed" /\ engine.load_returned = "true") =>
        /\ engine.execution_metadata.execution_duration_ms # NoNum
        /\ engine.execution_metadata.execution_mode \in
               {"real_model_attempt", "real_model_success", "simulation",
                "simulation_fallback"}

\* the confidence-like keys of the engine's result
ConfidenceKeys == {k \in DOMAIN engine.execution_result.map : IsConfName(k)}

\* C17: after a successful dispatch of any execution type, a result with a
\* key whose name contains "confidence" has its value in
\* metadata.simulated_confidence (the key named confidence first, else a
\* variant), with confidence_source model for the real implementation and
\* simulation for the simulation generator.
C17_ConfidenceExtracted ==
    (engine.state = "executed" /\ engine.returned = "true" /\ ConfidenceKeys # {}) =>
        LET m == engine.execution_result.map
            meta == engine.execution_metadata
        IN /\ IF "confidence" \in ConfidenceKeys
              THEN meta.simulated_confidence = m["confidence"]
              ELSE \E k \in ConfidenceKeys : meta.simulated_confidence = m[k]
           /\ meta.confidence_source =
                  IF meta.execution_mode = "real_model_success" THEN "model" ELSE "simulation"

\* ------------------------------------------------ adaptation triggers
\* C18: for a Performance_Degradation node the trigger check fires iff the
\* confidence is present and below 0.75, or else the duration is present and
\* above 1000 ms (exactly 0.75 and exactly 1000 do not fire); for a node with
\* no adaptation_strategy or with Manual_Trigger it never fires, so no new
\* node and no adaptation-log entry is produced.
C18_DeterministicTriggers ==
    (adapt_call.op = "evaluate_and_adapt" /\ adapt_call.readable) =>
        LET trigger == adapt_call.original.strategy.trigger
            confidence == adapt_call.metrics.simulated_confidence
            exec_time == adapt_call.metrics.execution_duration_ms
        IN /\ trigger = "Performance_Degradation" =>
                 (adapt_call.triggered <=>
                     \/ confidence # NoNum /\ confidence < 75
                     \/ exec_time # NoNum /\ exec_time > 1000)
           /\ trigger \in {"none", "Manual_Trigger"} =>
                 /\ ~adapt_call.triggered
                 /\ adapt_call.ret = NoId
                 /\ files = adapt_call.files_before
                 /\ adaptation_log = adapt_call.log_before

\* a Performance_Degradation node evaluated with confidence exactly 0.75 and
\* duration exactly 1000 ms: nothing fires, nothing is written
C18_Witness ==
    /\ adapt_call.op = "evaluate_and_adapt"
    /\ adapt_call.readable
    /\ adapt_call.original.strategy.trigger = "Performance_Degradation"
    /\ adapt_call.metrics.simulated_confidence = 75
    /\ adapt_call.metrics.execution_duration_ms = 1000
    /\ ~adapt_call.triggered
    /\ adaptation_log = <<>>

\* the identifier perform_adaptation builds for the record it was handed
NewIdOf(node) == NewNodeId(node.id, GetNextVersion(VersionOf(node)))

\* C19: when perform_adaptation returns a new identifier, the new node file
\* exists under it and exactly one log entry naming the original and the new
\* identifier has been appended; when the write or the log append fails it
\* returns none and no file of the new identifier is left behind.
C19_IdReturnedIffFileAndLogEntry ==
    (adapt_call.op = "evaluate_and_adapt" /\ adapt_call.triggered) =>
        /\ adapt_call.ret # NoId =>
              /\ adapt_call.ret \in DOMAIN files
              /\ Len(adaptation_log) = Len(adapt_call.log_before) + 1
              /\ SubSeq(adaptation_log, 1, Len(adapt_call.log_before)) = adapt_call.log_before
              /\ adaptation_log[Len(adaptation_log)].original_node_id = adapt_call.original.id
              /\ adaptation_log[Len(adaptation_log)].new_node_id = adapt_call.ret
        /\ adapt_call.io \in {"write_fails", "log_fails"} =>
              /\ adapt_call.ret = NoId
              /\ NewIdOf(adapt_call.original) \notin DOMAIN files

\* the identifier ends in a version suffix: its last "_v" piece is a version
EndsInVersionSuffix(id) == Len(id) >= 2 /\ id[Len(id)].shape # "name"

\* C20: an identifier ending in a version suffix gets that suffix replaced by
\* the new version, also when its name part contains "_v"; only an identifier
\* without a version suffix gets the new version appended.
C20_SuffixReplaced ==
    (adapt_call.op = "evaluate_and_adapt" /\ adapt_call.ret # NoId) =>
        LET id == adapt_call.original.id
            next_version == GetNextVersion(VersionOf(adapt_call.original))
        IN adapt_call.ret =
             IF EndsInVersionSuffix(id)
             THEN Append(SubSeq(id, 1, Len(id) - 1), next_version)
             ELSE Append(id, next_version)

\* ----------------------------------------------------- final results
\* the plan nodes without an outgoing dependency edge, in plan order
TerminalPlanNodes ==
    SelectSeq(composer.execution_plan,
              LAMBDA n : ~\E e \in LoadedEdges : e[1] = n)

\* C21: the final results hold, in plan order, one entry for each plan node
\* without an outgoing edge and for no other node: the node's result when it
\* executed, null when the run stopped before reaching it.
C21_FinalResultsAreTerminalNodes ==
    run.pc = "done" /\ run.final_status # NoStr =>
        LET fr == tracer.final_results
        IN /\ Len(fr) = Len(TerminalPlanNodes)
           /\ \A i \in 1..Len(fr) :
                /\ fr[i].node_id = TerminalPlanNodes[i]
                /\ IF fr[i].node_id \in DOMAIN composer.execution_results
                   THEN fr[i].result = composer.execution_results[fr[i].node_id]
                   ELSE fr[i].result = NoneResult
                /\ fr[i].node_id \in DOMAIN run.engine_inputs =>
                      fr[i].result.kind \in {"map", "error"}
                /\ IndexOf(composer.execution_plan, fr[i].node_id) > run.step =>
                      fr[i].result = NoneResult

\* two independent terminal nodes, the run failed at the first: the second
\* has a null entry
C21_Witness ==
    /\ run.pc = "done"
    /\ composer.execution_plan = <<"A", "B">>
    /\ Len(tracer.final_results) = 2
    /\ tracer.final_results[1].result.kind = "error"
    /\ tracer.final_results[2].result = NoneResult

\* -------------------------------------------------- adaptation errors
\* C22: an error raised while adaptation is evaluated or performed for a node
\* does not abort the run: the loop goes on with the next plan node with the
\* halt flag and the success flag as they were, and after the last plan node
\* the run ends SUCCESS.
C22_AdaptationErrorAbsorbed ==
    run.mode = "agent" =>
        \A i \in 1..Len(tracer.events) :
            tracer.events[i].event_type = "ADAPTATION_ERROR" =>
                LET k == IndexOf(composer.execution_plan, tracer.events[i].node_id)
                IN /\ k > 0
                   /\ composer.execution_results[composer.execution_plan[k]].kind = "map"
                   /\ IF i = Len(tracer.events)
                      THEN /\ run.pc = "a_head" /\ run.step = k + 1
                           /\ ~run.halt_execution /\ run.overall_success
                      ELSE IF k = Len(composer.execution_plan)
                      THEN tracer.events[i + 1] = Event("GRAPH_END", NoStr, "SUCCESS")
                      ELSE tracer.events[i + 1] =
                               Event("AGENT_STEP_START", composer.execution_plan[k + 1], NoStr)

\* the adaptation of A raised, B was executed afterwards and the run succeeded
C22_Witness ==
    /\ run.mode = "agent"
    /\ run.pc = "done"
    /\ run.final_status = "SUCCESS"
    /\ composer.execution_plan = <<"A", "B">>
    /\ \E i \in 1..Len(tracer.events) :
          /\ tracer.events[i] = Event("ADAPTATION_ERROR", "A", NoStr)
          /\ \E j \in (i + 1)..Len(tracer.events) :
                tracer.events[j] = Event("NODE_EXEC_END", "B", "SUCCESS")

\* ------------------------------------------------------ end of a run
\* C23: every run that was invoked ends, on every exit path, with exactly one
\* end_trace call whose status is SUCCESS, HALTED or FAILED (SUCCESS or FAILED
\* for the composer), with GRAPH_END as the last event of the run and with
\* that status in the session summary.
C23_RunAlwaysEndsWithStatus ==
    (run.mode # "none" /\ run.pc = "done") =>
        /\ tracer.ended = 1
        /\ tracer.status \in (IF run.mode = "agent" THEN {"SUCCESS", "HALTED", "FAILED"}
                              ELSE {"SUCCESS", "FAILED"})
        /\ run.final_status = tracer.status
        /\ tracer.summary = tracer.status
        /\ tracer.events # <<>>
        /\ tracer.events[Len(tracer.events)] = Event("GRAPH_END", NoStr, tracer.status)
        /\ \A i \in 1..(Len(tracer.events) - 1) : tracer.events[i].event_type # "GRAPH_END"

\* ------------------------------------------------ structure evaluation
\* what the summary must say about the node map
SummaryOfNodeMap(ge) ==
    LET ids == Range(composer.nodes)
        public == {n \in ids : composer.node_records[n].access_level = "Public"}
    IN /\ ge.node_count = Cardinality(ids)
       /\ ge.public_node_count = Cardinality(public)
       /\ ge.security_risk_level =
             (IF Cardinality(public) >= 3 THEN "High"
              ELSE IF Cardinality(public) >= 1 THEN "Medium" ELSE "Low")
       /\ ge.fallback_policy_count =
             Cardinality({n \in ids : composer.node_records[n].fallback})

\* C24 (state part): a second evaluation of the unchanged node map returns
\* the summary the first one returned, and the summary describes the node map.
C24_State ==
    /\ run.calls >= 1 => SummaryOfNodeMap(run.graph_evaluation)
    /\ run.calls >= 2 => run.graph_evaluation = run.previous

\* C24 (step part): an evaluation changes neither the composer (node map,
\* adjacency, in-degrees, plan, results, metadata) nor the halt flag.
C24_Step == composer' = composer /\ run'.halt_execution = run.halt_execution

ValidFilesOf(id) ==
    {i \in 1..Len(files.dir) : files.dir[i].kind = "valid" /\ files.dir[i].id = id}

\* the last of a non-empty set of positions
LastOf(S) == CHOOSE i \in S : \A j \in S : j <= i

\* C25: load_nodes skips unparsable, identifier-less and invalid files without
\* failing, fails only when no valid node was loaded, keeps for two valid
\* files of one identifier the later one as record and as path, and leaves
\* the node map and the node-path map with the same keys.
C25_LoadSkipsAndLastWins ==
    composer.phase # "new" =>
        LET valid == {id \in {"A", "B"} : files.is_dir /\ ValidFilesOf(id) # {}}
        IN /\ DOMAIN composer.node_records = DOMAIN composer.node_paths
           /\ DOMAIN composer.node_records = Range(composer.nodes)
           /\ Range(composer.nodes) = valid
           /\ Len(composer.nodes) = Cardinality(valid)
           /\ composer.phase = "load_failed" <=> valid = {}
           /\ \A id \in valid :
                LET last == files.dir[LastOf(ValidFilesOf(id))]
                IN /\ composer.node_paths[id] = last.name
                   /\ composer.node_records[id].loaded_from = last.name

\* two valid files of identifier A around an invalid one: the third file won
C25_Witness ==
    /\ composer.phase = "loaded"
    /\ Len(files.dir) = 3
    /\ files.dir[1] = FolderFile(FileName(1), "valid", "A")
    /\ files.dir[2].kind = "invalid"
    /\ files.dir[3] = FolderFile(FileName(3), "valid", "A")
    /\ composer.node_paths = [n \in {"A"} |-> FileName(3)]

\* ------------------------------------------------------- plan order
\* the loaded nodes n depends on
LoadedDeps(n) == {e[1] : e \in {x \in LoadedEdges : x[2] = n}}

\* the plan position at which the last dependency of n is planned
ReleasedAt(n) ==
    LET at == {IndexOf(composer.execution_plan, d) : d \in LoadedDeps(n)}
    IN CHOOSE i \in at : \A j \in at : j <= i

\* C26: the plan is determined by the loaded order: the nodes without
\* dependency come first in loaded order, and every other node follows in the
\* order in which its last dependency was planned, nodes released by the same
\* dependency in loaded order; so the same node collection always gets the
\* same plan.
C26_PlanFollowsLoadedOrderFifo ==
    composer.phase = "planned" =>
        LET plan == composer.execution_plan
            ready == SelectSeq(composer.nodes, LAMBDA n : LoadedDeps(n) = {})
            waiting == Range(composer.nodes) \ Range(ready)
        IN /\ Len(plan) >= Len(ready)
           /\ SubSeq(plan, 1, Len(ready)) = ready
           /\ \A x, y \in waiting :
                x # y =>
                  (IndexOf(plan, x) < IndexOf(plan, y)
                   <=> \/ ReleasedAt(x) < ReleasedAt(y)
                       \/ /\ ReleasedAt(x) = ReleasedAt(y)
                          /\ IndexOf(composer.nodes, x) < IndexOf(composer.nodes, y))

\* A and B are ready, C waits for A only: C is planned after B all the same
C26_Witness ==
    /\ composer.phase = "planned"
    /\ composer.nodes = <<"A", "B", "C">>
    /\ composer.depends_on = [n \in {"A", "B", "C"} |-> IF n = "C" THEN <<"A">> ELSE <<>>]
    /\ composer.execution_plan = <<"A", "B", "C">>

\* ------------------------------------------------- agent step order
\* the position of the first event of a type logged for node n, 0 if none
FirstEvent(type, n) ==
    LET at == {i \in 1..Len(tracer.events) :
                  tracer.events[i].event_type = type /\ tracer.events[i].node_id = n}
    IN IF at = {} THEN 0 ELSE CHOOSE i \in at : \A j \in at : i <= j

LowConfidenceWithoutFallback ==
    LET c == composer.execution_metadata["A"].simulated_confidence
    IN /\ c # NoNum
       /\ c < 70
       /\ ~ \E j \in 1..Len(adapt_call.policies) :
              /\ adapt_call.policies[j].action = "Fallback"
              /\ \E w \in Range(adapt_call.policies[j].condition) :
                    w \in {"confidence", "Confidence"}

C28_PostCheckHaltsIffLowConfidenceNoFallback ==
    run.pc = "a_checked" =>
        /\ run.halt_execution = (adapt_call.halt_before \/ LowConfidenceWithoutFallback)
        /\ DOMAIN composer.execution_results = {"A"}
        /\ composer.execution_plan = <<"A">>
        /\ ~ \E j \in 1..Len(tracer.events) : tracer.events[j].event_type = "NODE_EXEC_START"

C28_Witness ==
    /\ run.pc = "a_checked"
    /\ ~adapt_call.halt_before
    /\ ~run.halt_execution
    /\ composer.execution_metadata["A"].simulated_confidence = 60
    /\ Len(adapt_call.policies) = 2
    /\ adapt_call.policies[1].action = "Alert"
    /\ adapt_call.policies[2] = [action |-> "Fallback", condition |-> <<"Confidence", "low">>]

\* C29: the pre-execution check sets the halt flag only for a node that
\* declares an adaptation strategy; the node it halts on is not executed (no
\* engine loads it, no result, metadata or engine call is recorded for it), no
\* later node is started, and the run ends with status HALTED
EngineEvents == {"NODE_LOAD_SUCCESS", "NODE_LOAD_FAILED", "NODE_EXEC_START", "NODE_EXEC_END"}

PreCheckHaltAt(j) ==
    /\ tracer.events[j].event_type = "AGENT_PRE_CHECK_END"
    /\ tracer.events[j].status = "halt"

C29_PreCheckHaltStopsBeforeExecution ==
    \A j \in 1..Len(tracer.events) :
        PreCheckHaltAt(j) =>
            LET n == tracer.events[j].node_id
            IN /\ run.halt_execution
               /\ run.node_data.id = n
               /\ run.node_data.strategy.trigger # "none"
               /\ n \notin DOMAIN composer.execution_results
               /\ n \notin DOMAIN composer.execution_metadata
               /\ n \notin DOMAIN run.engine_inputs
               /\ \A k \in 1..Len(tracer.events) :
                     /\ tracer.events[k].node_id = n =>
                            tracer.events[k].event_type \notin EngineEvents
                     /\ k > j => tracer.events[k].event_type \notin
                                     EngineEvents \cup {"AGENT_STEP_START"}
               /\ run.pc = "done" =>
                     /\ run.final_status = "HALTED"
                     /\ tracer.status = "HALTED"

C29_Witness ==
    /\ run.mode = "agent"
    /\ run.pc = "done"
    /\ run.step = 2
    /\ \E j \in 1..Len(tracer.events) :
          PreCheckHaltAt(j) /\ tracer.events[j].node_id = composer.execution_plan[2]
    /\ composer.execution_plan[1] \in DOMAIN composer.execution_results

\* C30: over any sequence of adaptations on one node directory, an adaptation
\* that returns an identifier created a file that was not there before, and
\* every file that was there before is still there with the record it held.
C30_AdaptationNeverOverwritesAnyFile ==
    (adapt_call.op = "evaluate_and_adapt" /\ adapt_call.triggered) =>
        /\ adapt_call.ret # NoId => adapt_call.ret \notin DOMAIN adapt_call.files_before
        /\ \A f \in DOMAIN adapt_call.files_before :
              f \in DOMAIN files /\ files[f] = adapt_call.files_before[f]

\* ------------------------------------------- what an adaptation changes
\* the fields of a node record perform_adaptation is said to rewrite
RewrittenFields == {"id", "version", "rationale", "author", "derived_from"}

\* C31: for the method Select_New_Algorithm the node an adaptation persists
\* differs from the original record only in identifier, version, rationale,
\* author reference and derived_from: every other field, the adaptation
\* strategy among them, is the original's.
C31_AdaptedNodeKeepsOtherFields ==
    (adapt_call.op = "evaluate_and_adapt" /\ adapt_call.ret # NoId
     /\ adapt_call.original.strategy.method = "Select_New_Algorithm") =>
        /\ adapt_call.ret \in DOMAIN files
        /\ DOMAIN files[adapt_call.ret] = DOMAIN adapt_call.original
        /\ \A k \in (DOMAIN adapt_call.original) \ RewrittenFields :
              files[adapt_call.ret][k] = adapt_call.original[k]

\* C36: check_adaptation_triggers is a pure check: whether or not a trigger
\* fires, the node record handed to it, its adaptation strategy included, is
\* the same after the call as before.
C36_TriggerCheckLeavesRecordAlone ==
    (adapt_call.op = "evaluate_and_adapt" /\ adapt_call.readable) =>
        adapt_call.node_after = adapt_call.original

\* ----------------------------------------- adaptation inside a run
\* the nodes the engine touched in this run, in trace order
WorkedNodes ==
    LET work == SelectSeq(tracer.events, IsNodeWork)
    IN [i \in 1..Len(work) |-> work[i].node_id]

C32_State ==
    (run.mode = "agent" /\ tracer.active) =>
        /\ \A n \in Range(WorkedNodes) : n \in Range(composer.execution_plan)
        /\ \A i, j \in 1..Len(ExecStarts) :
              ExecStarts[i].node_id = ExecStarts[j].node_id => i = j
        /\ Len(ExecStarts) <= Len(composer.execution_plan)
        /\ \A i \in 1..Len(ExecStarts) :
              i <= Len(composer.execution_plan) =>
                  ExecStarts[i].node_id = composer.execution_plan[i]
        /\ DOMAIN composer.execution_results \subseteq Range(composer.execution_plan)
        /\ \A n \in DOMAIN run.adapted_nodes_this_run :
              \E i \in 1..Len(ExecStarts) : ExecStarts[i].node_id = n

C32_Step ==
    (run.mode = "agent" /\ run.pc = "a_adapt") =>
        /\ composer' = composer
        /\ Len(tracer'.events) >= Len(tracer.events)
        /\ \A j \in (Len(tracer.events) + 1)..Len(tracer'.events) :
              ~IsNodeWork(tracer'.events[j])

\* C32: an adaptation inside an agent run leaves the composer's node map and
\* plan as they were, and no node is executed twice or outside the plan:
\* the i-th node started is the i-th plan entry, under its own identifier.
C32_AdaptationLeavesRunAlone == []C32_State /\ [][C32_Step]_vars

\* the first node was adapted and the second one was executed after it
C32_Witness ==
    /\ run.mode = "agent"
    /\ run.pc = "done"
    /\ Len(composer.execution_plan) = 2
    /\ composer.execution_plan[1] \in DOMAIN run.adapted_nodes_this_run
    /\ Len(ExecStarts) = 2

\* ------------------------------------------------- without a tracer
\* C34: while no tracer was initialized every log_trace_event call leaves
\* the tracer state as it is, with no record appended, and a composer run or
\* an agent run returns false without executing a node.
C34_NoTracerNoRun ==
    ~tracer.active =>
        /\ tracer = NoTracer
        /\ run.mode \in {"composer", "agent"} =>
              /\ run.pc = "done"
              /\ run.returned = "false"
              /\ composer.execution_results = EmptyMap
              /\ composer.execution_metadata = EmptyMap
              /\ run.engine_inputs = EmptyMap

C34_Witness ==
    /\ ~tracer.active
    /\ run.mode = "agent"
    /\ run.pc = "done"
    /\ composer.phase = "planned"
    /\ Len(composer.execution_plan) = 2

\* ------------------------------------------------------ log_event
\* s with x appended when the condition holds
AppendedIf(cond, seq, x) == IF cond THEN Append(seq, x) ELSE seq

\* C33: a log_event call on an initialized tracer appends exactly the event
\* to the event stream and leaves the earlier records as they were; an
\* AGENT_DECISION event is added to agent_decisions, an event of type
\* NODE_ERROR or with status FAILED to error_events, and the node id of a
\* NODE_END event to nodes_executed unless it is already there.
C33_LogEventAppendsAndSummarises ==
    adapt_call.op = "log_event" =>
        LET e == adapt_call.event
            before == adapt_call.before
            sd == tracer.session_data
        IN /\ tracer.events = Append(before.events, e)
           /\ sd.agent_decisions =
                 AppendedIf(e.event_type = "AGENT_DECISION",
                            before.session_data.agent_decisions, e)
           /\ sd.error_events =
                 AppendedIf(e.event_type = "NODE_ERROR" \/ e.status = "FAILED",
                            before.session_data.error_events, e)
           /\ sd.nodes_executed =
                 AppendedIf(/\ e.event_type = "NODE_END"
                            /\ e.node_id # NoStr
                            /\ e.node_id \notin Range(before.session_data.nodes_executed),
                            before.session_data.nodes_executed, e.node_id)

\* ------------------------------------------------ session summary
\* the plan nodes whose execution completed with success in this run
SucceededInOrder ==
    SelectSeq(composer.execution_plan,
              LAMBDA n : /\ n \in DOMAIN composer.execution_results
                         /\ composer.execution_results[n].kind = "map")

\* C35: at the end of a run the summary's nodes_executed list holds exactly
\* the nodes whose execution completed with success in the run, in
\* execution order.
C35_NodesExecutedAreTheSucceeded ==
    (run.pc = "done" /\ tracer.active) =>
        tracer.session_data.nodes_executed = SucceededInOrder

\* C37: in the events of an execute call every NODE_EXEC_START of the node
\* is followed by exactly one NODE_EXEC_END of the same node, with status
\* SUCCESS or FAILED, on every path on which execute returns.
C37_ExecStartHasOneEnd ==
    engine.state = "executed" =>
        \A i \in 1..Len(engine.events) :
            engine.events[i].event_type = "NODE_EXEC_START" =>
                Cardinality({j \in (i + 1)..Len(engine.events) :
                                /\ engine.events[j].event_type = "NODE_EXEC_END"
                                /\ engine.events[j].node_id = engine.events[i].node_id
                                /\ engine.events[j].status \in {"SUCCESS", "FAILED"}}) = 1

\* C38: the summary's error list agrees with the outcome of the run: a run
\* that ended FAILED has at least one entry in error_events, a run that
\* ended SUCCESS has none.
C38_ErrorListAgreesWithOutcome ==
    (run.pc = "done" /\ tracer.active) =>
        /\ run.final_status = "FAILED" => tracer.session_data.error_events # <<>>
        /\ run.final_status = "SUCCESS" => tracer.session_data.error_events = <<>>

\* ------------------------------------------------- after a cycle
\* C39: when generate_execution_plan returned failure the composer holds no
\* plan: execution_plan is empty, which is what the orchestrator's
\* constructor and execute_graph_simulation test before they go on.
C39_NoPlanAfterCycle ==
    composer.phase = "plan_failed" => composer.execution_plan = <<>>

\* ------------------------------------------------- runs are independent
\* the nodes this run's loop got to
AttemptedNodes ==
    {tracer.events[i].node_id : i \in {j \in 1..Len(tracer.events) :
        tracer.events[j].event_type \in {"COMPOSER_STEP_START", "AGENT_STEP_START"}}}

\* a check of this run decided to halt
HaltDecidedInRun ==
    \E i \in 1..Len(tracer.events) :
        /\ tracer.events[i].event_type \in {"AGENT_PRE_CHECK_END", "AGENT_POST_CHECK_END"}
        /\ tracer.events[i].status = "halt"

\* C40: whatever an earlier run on the same controller left behind, a run
\* holds results and metadata only for nodes it attempted itself, its halt
\* flag is set only by one of its own checks, and it always gets to its first
\* plan node.
C40_RunsAreIndependent ==
    (run.mode \in {"composer", "agent"} /\ tracer.active) =>
        /\ DOMAIN composer.execution_results \subseteq AttemptedNodes
        /\ DOMAIN composer.execution_metadata \subseteq AttemptedNodes
        /\ (run.mode = "agent" /\ run.halt_execution) => HaltDecidedInRun
        /\ run.pc = "done" => composer.execution_plan[1] \in AttemptedNodes

\* the earlier run was halted and left a result behind; this one succeeded
C40_Witness ==
    /\ run.mode = "agent"
    /\ run.pc = "done"
    /\ run.final_status = "SUCCESS"
    /\ Len(composer.execution_plan) = 2
    /\ DOMAIN composer.execution_results = Range(composer.execution_plan)
    /\ adapt_call.previous.halt
    /\ DOMAIN adapt_call.previous.results = {composer.execution_plan[1]}

====
